---- MODULE Spec2Model ----
(***************************************************************************)
(* Health Monitoring System: the client-side reading store                 *)
(* (store/readingStore.ts, soft-clamp variant), the aggregates and the     *)
(* result screen (ResultContainer.tsx), the telemetry handler and the      *)
(* websocket connection of the client (MainContainer.tsx), and the four    *)
(* tasks of the device (project.ino): pulse, sampler, print, broadcaster.  *)
(* Each component has a specification of its own; the variables of the     *)
(* others stay as they were initialised.  The pulse task is run on three   *)
(* signals (SpecDevice, SpecTrain, SpecRest); the tasks that share the     *)
(* snapshot are interleaved at every access to it (SpecSampler,            *)
(* SpecTasks).                                                             *)
(*                                                                         *)
(* Numbers.  Sensor values are JavaScript numbers; they are modelled as    *)
(* fixed-point integers with Scale units per 1.0, timestamps are integer   *)
(* milliseconds.  With Scale = 10000 every limit of the store is an exact  *)
(* integer: ROC_PER_SEC.body * dtSec = 0.6 * dtMs / 1000 = 6 units per ms. *)
(* NaN stands for every non-finite number, Null for null / undefined.      *)
(* Date.now() is the variable now, counted from an arbitrary origin (the   *)
(* store only ever compares differences of times).                         *)
(***************************************************************************)
EXTENDS Integers, Sequences, FiniteSets, TLC

\* ---------------------------------------------------------------- numbers
\* 1000 ms per second times the one decimal of ROC_PER_SEC: units per 1.0
Scale == 10 * 1000

NaN == -999999999
Null == -999999998

Abs(x) == IF x < 0 THEN -x ELSE x
Sign(x) == IF x > 0 THEN 1 ELSE IF x < 0 THEN -1 ELSE 0
Max(a, b) == IF a >= b THEN a ELSE b

\* ----------------------------------------------------------------- config
WINDOW_MS == 3600000

BOUNDS ==
  [hr   |-> [min |-> 30 * Scale,  max |-> 220 * Scale],
   body |-> [min |-> 20 * Scale,  max |-> 42 * Scale],
   amb  |-> [min |-> -30 * Scale, max |-> 60 * Scale],
   hum  |-> [min |-> 0,           max |-> 100 * Scale]]

JUMP == [hr |-> 50 * Scale, body |-> 1 * Scale, amb |-> 2 * Scale, hum |-> 15 * Scale]

\* per second, in units per millisecond: limit * Scale / 1000
ROC_PER_SEC == [hr |-> 400, body |-> 6, amb |-> 30, hum |-> 200]

USE_HAMPEL == FALSE
HAMPEL_K == 9
HAMPEL_T == 3

RELAX == [skipChecksIfPrevOlderThanMs |-> 5000]

\* ---------------------------------------------------------------- helpers
isFiniteNum(x) == x # NaN /\ x # Null

inBounds_noMin(v, min, max) == isFiniteNum(v) /\ v <= max

inBounds(v, min, max) == isFiniteNum(v) /\ v >= min /\ v <= max

absJumpTooLarge(prev, cur, limit) ==
  IF ~isFiniteNum(prev) \/ ~isFiniteNum(cur) THEN FALSE
  ELSE Abs(cur - prev) > limit

\* dt is dtSec in milliseconds, limitPerMs the per-second limit per ms
rocTooLarge(prevVal, curVal, dt, limitPerMs) ==
  IF ~isFiniteNum(prevVal) \/ ~isFiniteNum(curVal) \/ dt <= 0 THEN FALSE
  ELSE Abs(curVal - prevVal) > limitPerMs * dt

softClampToward_away(prev, cur, limit) ==
  LET delta == cur - prev
  IN  IF Abs(delta) <= limit THEN cur ELSE prev - Sign(delta) * limit

softClampToward_up(prev, cur, limit) ==
  LET delta == cur - prev
  IN  IF Abs(delta) <= limit THEN cur ELSE prev + limit

softClampToward(prev, cur, limit) ==
  LET delta == cur - prev
  IN  IF Abs(delta) <= limit THEN cur ELSE prev + Sign(delta) * limit

\* r.timestamp ?? 0
tsOrZero(r) == IF r.timestamp = Null THEN 0 ELSE r.timestamp

\* a prune that also drops the reading timestamped exactly at the cutoff
RECURSIVE pruneOld_atCutoff(_, _)
pruneOld_atCutoff(b, t) ==
  LET cutoff == t - WINDOW_MS
  IN  IF Len(b) > 0 /\ tsOrZero(b[1]) <= cutoff THEN pruneOld_atCutoff(Tail(b), t)
      ELSE b

RECURSIVE pruneOld(_, _)
pruneOld(b, t) ==
  LET cutoff == t - WINDOW_MS
  IN  IF Len(b) > 0 /\ tsOrZero(b[1]) < cutoff THEN pruneOld(Tail(b), t) ELSE b

\* ---------------------------------------------------------- Hampel filter
RECURSIVE insertSorted(_, _)
insertSorted(x, s) ==
  IF s = <<>> THEN <<x>>
  ELSE IF x <= Head(s) THEN <<x>> \o s
  ELSE <<Head(s)>> \o insertSorted(x, Tail(s))

RECURSIVE sortAsc(_)
sortAsc(s) == IF s = <<>> THEN <<>> ELSE insertSorted(Head(s), sortAsc(Tail(s)))

\* twice the median, so that the mean of the two middle values stays integer
median2(arr) ==
  LET a == sortAsc(arr)
      n == Len(a)
  IN  IF n % 2 = 1 THEN 2 * a[(n - 1) \div 2 + 1] ELSE a[n \div 2] + a[n \div 2 + 1]

\* 4 * median(|x - med|), without the 1.4826 factor (applied in hampelOutlier)
mad4(arr, med2) == median2([i \in 1..Len(arr) |-> Abs(2 * arr[i] - med2)])

RECURSIVE filterFinite(_)
filterFinite(s) ==
  IF s = <<>> THEN <<>>
  ELSE IF isFiniteNum(Head(s)) THEN <<Head(s)>> \o filterFinite(Tail(s))
  ELSE filterFinite(Tail(s))

lastK(s, k) == IF Len(s) <= k THEN s ELSE SubSeq(s, Len(s) - k + 1, Len(s))

\* |current - med| > HAMPEL_T * (1.4826 * MAD || 1e-6), in units of 1/Scale:
\* both sides times 4 * 10000; a zero MAD is replaced by 1e-6 (below one
\* unit, so any non-zero deviation exceeds it)
hampelOutlier(current, series) ==
  LET tail == lastK(filterFinite(series), HAMPEL_K)
  IN  IF ~isFiniteNum(current) \/ Len(tail) < Max(5, HAMPEL_K \div 2) THEN FALSE
      ELSE LET med2 == median2(tail)
               m4   == mad4(tail, med2)
               dev2 == Abs(2 * current - med2)
           IN  IF m4 = 0 THEN dev2 > 0
               ELSE (2 * dev2) * 10000 > HAMPEL_T * 14826 * m4

\* ---------------------------------------------------------------- readings
Reading(hr, body, amb, hum, ts) ==
  [heartRate |-> hr, bodyTempC |-> body, ambientTempC |-> amb,
   humidity |-> hum, timestamp |-> ts]

NoReading == Reading(Null, Null, Null, Null, Null)

\* --------------------------------------------------------------- addReading
prevIsStale_never(dtMs) == FALSE

prevIsStale(dtMs) == dtMs > RELAX.skipChecksIfPrevOlderThanMs

\* lines 143-265: the reading as it is pushed, given the last buffered one
clampAgainst(prev, r) ==
  LET dtMs  == r.timestamp - prev.timestamp
      dt    == Max(1, dtMs)      \* dtSec = max(0.001, dtMs / 1000), in ms
      bothHum == isFiniteNum(r.humidity) /\ isFiniteNum(prev.humidity)
      \* absolute jump checks
      hrJump  == Abs(r.heartRate - prev.heartRate)
      humJump == IF bothHum THEN Abs(r.humidity - prev.humidity) ELSE 0
      hr1   == IF hrJump > JUMP.hr
               THEN softClampToward(prev.heartRate, r.heartRate, JUMP.hr)
               ELSE r.heartRate
      body1 == r.bodyTempC       \* line 173: the clamped value is discarded
      amb1  == r.ambientTempC    \* line 183: the clamped value is discarded
      hum1  == IF bothHum /\ humJump > JUMP.hum
               THEN softClampToward(prev.humidity, r.humidity, JUMP.hum)
               ELSE r.humidity
      \* rate-of-change checks
      maxHr   == ROC_PER_SEC.hr * dt
      maxBody == ROC_PER_SEC.body * dt
      maxAmb  == ROC_PER_SEC.amb * dt
      maxHum  == ROC_PER_SEC.hum * dt
      bodyROC == Abs(body1 - prev.bodyTempC)
      ambROC  == Abs(amb1 - prev.ambientTempC)
      humROC  == IF bothHum THEN Abs(hum1 - prev.humidity) ELSE 0
      hr2   == hr1               \* line 216: the clamped value is discarded
      body2 == IF bodyROC > maxBody
               THEN softClampToward(prev.bodyTempC, body1, maxBody) ELSE body1
      amb2  == IF ambROC > maxAmb
               THEN softClampToward(prev.ambientTempC, amb1, maxAmb) ELSE amb1
      hum2  == IF bothHum /\ humROC > maxHum
               THEN softClampToward(prev.humidity, hum1, maxHum) ELSE hum1
  IN  IF prevIsStale(dtMs) THEN r
      ELSE [r EXCEPT !.heartRate = hr2, !.bodyTempC = body2,
                     !.ambientTempC = amb2, !.humidity = hum2]

basicValid(r) ==
  /\ isFiniteNum(r.heartRate)
  /\ isFiniteNum(r.bodyTempC)
  /\ isFiniteNum(r.ambientTempC)
  /\ isFiniteNum(r.timestamp)

\* a range check that leaves the heart rate out
rangeValid_anyHeartRate(r) ==
  /\ inBounds(r.bodyTempC, BOUNDS.body.min, BOUNDS.body.max)
  /\ inBounds(r.ambientTempC, BOUNDS.amb.min, BOUNDS.amb.max)
  /\ (r.humidity # Null => inBounds(r.humidity, BOUNDS.hum.min, BOUNDS.hum.max))

rangeValid(r) ==
  /\ inBounds(r.heartRate, BOUNDS.hr.min, BOUNDS.hr.max)
  /\ inBounds(r.bodyTempC, BOUNDS.body.min, BOUNDS.body.max)
  /\ inBounds(r.ambientTempC, BOUNDS.amb.min, BOUNDS.amb.max)
  /\ (r.humidity # Null => inBounds(r.humidity, BOUNDS.hum.min, BOUNDS.hum.max))

series(b, f) == [i \in 1..Len(b) |-> IF b[i][f] = Null THEN NaN ELSE b[i][f]]

hampelRejects(b, r) ==
  \/ hampelOutlier(r.heartRate, series(b, "heartRate"))
  \/ hampelOutlier(r.bodyTempC, series(b, "bodyTempC"))
  \/ hampelOutlier(r.ambientTempC, series(b, "ambientTempC"))
  \/ (isFiniteNum(r.humidity) /\ hampelOutlier(r.humidity, series(b, "humidity")))

\* the earlier variant of the store (second half of the file): a jump or a
\* rate of change beyond the limit drops the reading
addReading_hardReject(b, r, t) ==
  IF ~basicValid(r) \/ ~rangeValid(r)
  THEN [buf |-> pruneOld(b, t), ret |-> "undefined", pushed |-> NoReading]
  ELSE LET prev == IF Len(b) > 0 THEN b[Len(b)] ELSE NoReading
           dt   == IF Len(b) > 0 THEN Max(1, r.timestamp - prev.timestamp) ELSE 1
       IN  IF Len(b) > 0 /\
              (\/ absJumpTooLarge(prev.heartRate, r.heartRate, JUMP.hr)
               \/ absJumpTooLarge(prev.bodyTempC, r.bodyTempC, JUMP.body)
               \/ absJumpTooLarge(prev.ambientTempC, r.ambientTempC, JUMP.amb)
               \/ absJumpTooLarge(prev.humidity, r.humidity, JUMP.hum)
               \/ rocTooLarge(prev.heartRate, r.heartRate, dt, ROC_PER_SEC.hr)
               \/ rocTooLarge(prev.bodyTempC, r.bodyTempC, dt, ROC_PER_SEC.body)
               \/ rocTooLarge(prev.ambientTempC, r.ambientTempC, dt, ROC_PER_SEC.amb)
               \/ rocTooLarge(prev.humidity, r.humidity, dt, ROC_PER_SEC.hum))
           THEN [buf |-> pruneOld(b, t), ret |-> "undefined", pushed |-> NoReading]
           ELSE [buf |-> pruneOld(Append(b, r), t), ret |-> "true", pushed |-> r]

\* addReading(r) on buffer b at Date.now() = t: the buffer it leaves, the
\* value it returns and the reading it pushed (NoReading when it pushed none)
addReading(b, r, t) ==
  IF ~basicValid(r)
  THEN [buf |-> pruneOld(b, t), ret |-> "undefined", pushed |-> NoReading]
  ELSE IF ~rangeValid(r)
  THEN [buf |-> pruneOld(b, t), ret |-> "undefined", pushed |-> NoReading]
  ELSE LET r2 == IF Len(b) > 0 THEN clampAgainst(b[Len(b)], r) ELSE r
       IN  IF USE_HAMPEL /\ hampelRejects(b, r2)
           THEN [buf |-> pruneOld(b, t), ret |-> "false", pushed |-> NoReading]
           ELSE [buf |-> pruneOld(Append(b, r2), t), ret |-> "true", pushed |-> r2]

\* ------------------------------------------------------ getLastHourReadings
getLastHourReadings_toExclusive(b, from, to) ==
  SelectSeq(b, LAMBDA r : tsOrZero(r) >= from /\ tsOrZero(r) < to)

\* buf.filter((r) => r.timestamp >= from && r.timestamp <= to)
getLastHourReadings(b, from, to) ==
  SelectSeq(b, LAMBDA r : tsOrZero(r) >= from /\ tsOrZero(r) <= to)

\* ------------------------------------------------- resetBuffer, getBufferSize
\* a reset that drops the oldest reading only
resetBuffer_dropOldest(b) == IF b = <<>> THEN <<>> ELSE Tail(b)

\* buf.length = 0
resetBuffer(b) == <<>>

getBufferSize(b) == Len(b)

\* ---------------------------------------------------------- computeAggregates
\* a mean is kept exact as sum over count; count 0 stands for null
NullMean == [sum |-> 0, n |-> 0]

\* r.f of a reading, undefined (Null) when the reading has no such field
field(r, f) == IF f \in DOMAIN r THEN r[f] ELSE Null

\* the sum of the finite values among ns[lo .. hi]
RECURSIVE sumBetween(_, _, _)
sumBetween(ns, lo, hi) ==
  IF lo > hi THEN 0
  ELSE IF lo = hi THEN (IF isFiniteNum(ns[lo]) THEN ns[lo] ELSE 0)
  ELSE LET mid == (lo + hi) \div 2
       IN  sumBetween(ns, lo, mid) + sumBetween(ns, mid + 1, hi)

sumFinite(ns) == sumBetween(ns, 1, Len(ns))

countFinite(ns) == Cardinality({ i \in 1..Len(ns) : isFiniteNum(ns[i]) })

\* an average that divides by the number of rows, missing values included
avg_overAllRows(ns) ==
  IF countFinite(ns) = 0 THEN NullMean ELSE [sum |-> sumFinite(ns), n |-> Len(ns)]

\* const a = ns.filter(Number.isFinite); a.length ? sum(a) / a.length : null
avg(ns) ==
  IF countFinite(ns) = 0 THEN NullMean
  ELSE [sum |-> sumFinite(ns), n |-> countFinite(ns)]

column(rows, f) == [i \in 1..Len(rows) |-> field(rows[i], f)]

ROWS_PER_HOUR == 3600

\* coveragePct = Math.min(rows.length / 3600, 1), kept exact as num over den
computeAggregates(b, t) ==
  LET from == t - 3600000
      rows == getLastHourReadings(b, from, t)
  IN  [ hrMean       |-> avg(column(rows, "heartRate")),
        bodyMean     |-> avg(column(rows, "bodyTempC")),
        ambMean      |-> avg(column(rows, "ambientTempC")),
        humidityMean |-> avg(column(rows, "humidity")),
        mlxObjMean   |-> avg(column(rows, "mlxObjectC")),
        mlxAmbMean   |-> avg(column(rows, "mlxAmbientC")),
        coveragePct  |-> [num |-> IF Len(rows) < ROWS_PER_HOUR THEN Len(rows)
                                  ELSE ROWS_PER_HOUR,
                          den |-> ROWS_PER_HOUR],
        recentCount  |-> Len(rows) ]

NoAggr == computeAggregates(<<>>, 0)

\* ------------------------------------------------------------- telemetry
\* v rounded to a multiple of unit, halves away from zero
roundTo(v, unit) ==
  IF v >= 0 THEN ((v + unit \div 2) \div unit) * unit
  ELSE 0 - (((0 - v) + unit \div 2) \div unit) * unit

\* snprintf("%.1f") and snprintf("%.2f") of a float; "null" for NaN
fOrNull(v, prec) ==
  IF v = NaN THEN Null
  ELSE roundTo(v, IF prec = 1 THEN Scale \div 10 ELSE Scale \div 100)

\* the JSON text built by taskWsBroadcaster, as JSON.parse reads it back
telemetry(bpm, body, amb, hum, ts) ==
  [ heartRate    |-> fOrNull(bpm, 1),
    bodyTempC    |-> fOrNull(body, 2),
    ambientTempC |-> fOrNull(amb, 2),
    humidity     |-> fOrNull(hum, 1),
    ts           |-> ts ]

NoFrame == [heartRate |-> Null, bodyTempC |-> Null, ambientTempC |-> Null,
            humidity |-> Null, ts |-> Null]

\* typeof v === "number": a JSON number; null and a missing field are not
isNumber(v) == v # Null /\ v # NaN

\* Math.round: the nearest integer, halves up
mathRound(v) == ((v + Scale \div 2) \div Scale) * Scale

\* 1e12 on the clock of the model, which counts milliseconds from an origin
\* shortly before that instant; every value at or below it stands for a
\* timestamp that is not epoch time
EPOCH_FLOOR == 1000000

\* a timestamp taken from the message also when it is exactly 1e12
wsTimestamp_atLeast(data, t) ==
  IF isNumber(data.ts) /\ data.ts >= EPOCH_FLOOR THEN data.ts ELSE t

\* Number.isFinite(data?.ts) && data.ts > 1e12 ? Number(data.ts) : now
wsTimestamp(data, t) ==
  IF isNumber(data.ts) /\ data.ts > EPOCH_FLOOR THEN data.ts ELSE t

\* the payload ws.onmessage builds from a parsed message at time t
wsPayload(data, t) ==
  Reading(IF isNumber(data.heartRate) THEN mathRound(data.heartRate) ELSE Null,
          IF isNumber(data.bodyTempC) THEN data.bodyTempC ELSE Null,
          IF isNumber(data.ambientTempC) THEN data.ambientTempC ELSE Null,
          IF isNumber(data.humidity) THEN data.humidity ELSE Null,
          wsTimestamp(data, t))

\* ------------------------------------------------------------- pulse task
LP_ALPHA == 8
TH_FLOOR == 30
MIN_IBI_MS == 300
MAX_IBI_MS == 1500
SILENCE_MS == 3000

\* integer division of C, truncating toward zero
cdiv(a, b) == IF a >= 0 THEN a \div b ELSE 0 - ((0 - a) \div b)

\* a threshold that is left to decay without a floor
nextThresh_noFloor(th, a) ==
  IF a > th THEN cdiv(3 * th + a, 4) ELSE cdiv(15 * th, 16)

\* if (a > thresh) thresh = (3*thresh + a)/4; else thresh = (15*thresh)/16;
\* if (thresh < TH_FLOOR) thresh = TH_FLOOR;
nextThresh(th, a) ==
  LET t1 == IF a > th THEN cdiv(3 * th + a, 4) ELSE cdiv(15 * th, 16)
  IN  IF t1 < TH_FLOOR THEN TH_FLOOR ELSE t1

\* a rising edge taken without the dead time
risingEdge_noDeadTime(peak, ac, th, t, last) == ~peak /\ ac > th

\* !inPeak && ac > thresh && (now - lastBeatMs) > MIN_IBI_MS
risingEdge(peak, ac, th, t, last) ==
  ~peak /\ ac > th /\ (t - last) > MIN_IBI_MS

\* a flag that is cleared at the end of every cycle
peakExit_always(peak, ac) == FALSE

\* if (inPeak && ac < 0) inPeak = false;
peakExit(peak, ac) == IF peak /\ ac < 0 THEN FALSE ELSE peak

\* an interval check without the upper bound
validIbi_noMax(last, ibi) == last > 0 /\ ibi > MIN_IBI_MS

\* lastBeatMs > 0 && ibi > MIN_IBI_MS && ibi < MAX_IBI_MS
validIbi(last, ibi) == last > 0 /\ ibi > MIN_IBI_MS /\ ibi < MAX_IBI_MS

\* 60000.0f / (float)ibi, in units of 1 / Scale
instantBpm(ibi) == (60000 * Scale) \div ibi

RECURSIVE sumFirst(_, _)
sumFirst(b, n) == IF n = 0 THEN 0 ELSE b[n] + sumFirst(b, n - 1)

\* a mean taken over the four slots whatever the count
smoothedBpm_overFour(b, n) == sumFirst(b, 4) \div 4

\* acc / (float)bpmCount over bpmBuf[0 .. bpmCount - 1]
smoothedBpm(b, n) == sumFirst(b, n) \div n

\* a timeout that waits a second longer
silent_late(t, last) == t - last > SILENCE_MS + 1000

\* now - g_lastBeatMs > 3000
silent(t, last) == t - last > SILENCE_MS

\* the quick baseline of the 200 first samples and the time it takes
QuickBaseline == 2000
BaselineMs == 400

\* ------------------------------------------------------------ sampler task
\* raw * 0.02f - 273.15f, in units of 1 / Scale
mlxRawToC(raw) == raw * 200 - 2731500

\* a read that goes on after the object register failed
readMLX90614_ignoresObject(okAmb, okObj, ambRaw, objRaw, ambientC, objectC) ==
  IF ~okAmb THEN [ok |-> FALSE, ambientC |-> ambientC, objectC |-> objectC]
  ELSE [ok |-> TRUE, ambientC |-> mlxRawToC(ambRaw),
        objectC |-> IF okObj THEN mlxRawToC(objRaw) ELSE NaN]

\* readMLX90614(ambientC, objectC): okAmb and okObj are the results of the two
\* mlxReadWord calls, ambRaw and objRaw the words they deliver; the two
\* references are assigned only when both calls succeeded
readMLX90614(okAmb, okObj, ambRaw, objRaw, ambientC, objectC) ==
  IF ~okAmb THEN [ok |-> FALSE, ambientC |-> ambientC, objectC |-> objectC]
  ELSE IF ~okObj THEN [ok |-> FALSE, ambientC |-> ambientC, objectC |-> objectC]
  ELSE [ok |-> TRUE, ambientC |-> mlxRawToC(ambRaw), objectC |-> mlxRawToC(objRaw)]

\* a test that lets one valid value through
bothValid_either(t, h) == t # NaN \/ h # NaN

\* !isnan(t) && !isnan(h)
bothValid(t, h) == t # NaN /\ h # NaN

\* ------------------------------------------------------------------ bounds
MaxBuf == 2
T0 == 4000000
Step == 4000
MaxSteps == 1

\* the instants at which a call can happen: up to MaxSteps steps after T0,
\* and the same one retention window later
Instants == { T0 + k * Step + j * WINDOW_MS : k \in 0..MaxSteps, j \in {0, 1} }

\* ------------------------------------------------------------------- state
VARIABLES
  buf,        \* const buf: SensorReading[]
  now,        \* Date.now()
  lastOp,     \* the call that returned last: "init","add","query","reset","tick"
  cand,       \* argument of the last addReading
  ret,        \* its return value
  pushed,     \* the reading it pushed
  bufBefore,  \* the buffer when the last call started
  qFrom,      \* arguments of the last getLastHourReadings
  qTo,
  result,     \* its result
  size,       \* result of the last getBufferSize
  aggr        \* result of the last computeAggregates

\* a stream of readings stored as they arrive
VARIABLES
  nAcc,       \* readings accepted since the buffer was empty
  firstAt,    \* arrival time of the first of them
  lastAt,     \* arrival time of the last of them
  minGap      \* smallest time between two consecutive arrivals, Null below two

storeVars == <<buf, now, lastOp, cand, ret, pushed, bufBefore, qFrom, qTo, result,
              size, aggr>>

\* the result screen (ResultContainer)
VARIABLES
  status,     \* "loading", "bad", "fine" or "good"
  summary,    \* "empty", "not enough data" or "ai"
  guidelines, \* "empty" or "ai"
  report,     \* "", "samples and coverage" or "falling back"
  loading,    \* the loading flag
  lastError,  \* "null" or the message of the error caught last
  inFlight,   \* inFlightRef.current
  awaiting,   \* runLLM is suspended at await fetchHealthSummary
  curAggr,    \* the aggregates the suspended runLLM sent
  apiKey,     \* EXPO_PUBLIC_OPENAI_API_KEY is set
  resOp,      \* how the last runLLM ended: "init", "skipped", "sent",
              \* "resolved" or "rejected", or "blocked" by the guard
  shownAggr,  \* the aggregates in the state of the component
  requests,   \* calls of fetchHealthSummary that have not settled
  demoMode,   \* the mode of the last injectScenario, "none" before
  injections, \* calls of injectScenario so far
  injectedInFlight \* the last injectScenario ran while a request was in
              \* flight and no runLLM has passed the guard since

\* the telemetry handler of the client (MainContainer, ws.onmessage)
VARIABLES
  frame,      \* the message handled last, as JSON.parse returned it
  reading     \* the reading shown on the main screen

\* the websocket connection of the client (MainContainer)
VARIABLES
  connStatus,        \* "disconnected", "connecting", "connected" or "error"
  socks,             \* readyState of every socket created so far, by number
  wsRef,             \* number of the socket in wsRef.current, 0 for null
  heartbeat,         \* socket whose ping interval is live, 0 when
                     \* heartbeatRef.current is null
  timerRef,          \* reconnectTimerRef.current is not null
  timerLive,         \* the reconnect timeout is pending
  delayMs,           \* delay of the reconnect timeout scheduled last
  reconnectAttempts, \* reconnectAttemptsRef.current
  manualDisconnect,  \* manualDisconnectRef.current
  wsOp,              \* the handler that ran last
  closedSock,        \* the socket whose close event was handled last
  sinceOpen,         \* reconnect attempts (sockets created by the reconnect
                     \* timeout) since the last open event or disconnect
  mounted,           \* the component is mounted
  quiet,             \* onDisconnect or the unmount cleanup ran and onConnect
                     \* has not run since
  liveIntervals,     \* ping intervals set and not cleared
  liveTimeouts       \* reconnect timeouts set, not cleared and not fired

\* the device: pulse task, shared snapshot, broadcaster (project.ino)
VARIABLES
  millis,       \* millis() as the pulse task read it last
  baseline,     \* locals of taskPulse
  lp,
  thresh,
  inPeak,
  lastBeatMs,
  bpmBuf,
  bpmIdx,
  bpmCount,
  g_bpm,        \* the shared snapshot
  g_lastBeatMs,
  g_temp,
  g_hum,
  g_mlxAmb,
  g_mlxObj,
  json,         \* the message the broadcaster sent last
  cycles,       \* passes of the loop of taskPulse so far
  pulseOp,      \* the task step taken last: "init", "cycle", "beat", "broadcast"
  instants,     \* the instantaneous BPM values pushed so far, oldest first
  dipped,       \* a cycle since the last registered beat had AC below zero
  rawIn,        \* the sample analogRead returned in the last pass
  slowRun,      \* registered beats in a row, up to now, whose interval was
                \* between 1500 and 3000 ms
  fresh         \* values pushed since the timeout last set g_bpm to 0

\* the three low-priority tasks of the device, one step per access to the
\* shared snapshot
VARIABLES
  dhtTask,      \* taskDHT: its position, its locals t, h, ambC, objC, the
                \* result ok of readMLX90614; cycle counts its passes, okAmb
                \* and okObj are the results of the register reads of the
                \* pass, t0 and h0 the values of g_temp and g_hum at its start
  wsTask,       \* taskWsBroadcaster: its position and the locals of the body
                \* of its loop, NaN outside their scope; cycle0 is the pass of
                \* taskDHT that had ended when this pass began, -1 when
                \* taskDHT was in the middle of one
  printTask,    \* taskPrint: its position, last and the locals of the block,
                \* NaN outside their scope
  writtenIn,    \* for each environment field, the pass of taskDHT that wrote it
  readFrom      \* for the first value of each pair a reader is reading, the
                \* pass that wrote it; torn tells whether a reader has obtained
                \* a pair written in two different passes

streamVars == <<nAcc, firstAt, lastAt, minGap>>

pulseVars == <<millis, baseline, lp, thresh, inPeak, lastBeatMs, bpmBuf, bpmIdx,
              bpmCount, g_bpm, g_lastBeatMs, g_temp, g_hum, g_mlxAmb, g_mlxObj,
              json, cycles, pulseOp, instants, dipped, rawIn, slowRun, fresh>>

taskVars == <<dhtTask, wsTask, printTask, writtenIn, readFrom>>

wsVars == <<connStatus, socks, wsRef, heartbeat, timerRef, timerLive, delayMs,
           reconnectAttempts, manualDisconnect, wsOp, closedSock, sinceOpen,
           mounted, quiet, liveIntervals, liveTimeouts>>

wireVars == <<frame, reading>>

resultVars == <<status, summary, guidelines, report, loading, lastError, inFlight,
               awaiting, curAggr, apiKey, resOp, shownAggr, requests, demoMode,
               injections, injectedInFlight>>

vars == <<storeVars, streamVars, resultVars, wireVars, wsVars, pulseVars,
          taskVars>>

\* what the calls of the reading store leave alone
notStore == <<streamVars, resultVars, wireVars, wsVars, pulseVars,
  taskVars>>

\* what the stream of readings leaves alone
notStream == <<resultVars, wireVars, wsVars, pulseVars,
  taskVars>>

\* what the result screen leaves alone
notResult == <<storeVars, streamVars, wireVars, wsVars, pulseVars,
  taskVars>>

\* what the telemetry handler leaves alone
notWire == <<streamVars, resultVars, wsVars, pulseVars,
  taskVars>>

\* what the websocket connection leaves alone
notWs == <<storeVars, streamVars, resultVars, wireVars, pulseVars,
  taskVars>>

\* what the device leaves alone
notDevice == <<storeVars, streamVars, resultVars, wireVars, wsVars>>

\* ------------------------------------------------------------------ inputs
OldAge == WINDOW_MS + 1000

\* heart rate, body temperature, ambient temperature, humidity
Vitals ==
  { <<60 * Scale, 36 * Scale, 25 * Scale, 40 * Scale>>,    \* calm
    <<130 * Scale, 39 * Scale, 28 * Scale, 60 * Scale>>,   \* every field far up
    <<60 * Scale, 36 * Scale, 25 * Scale, Null>>,          \* no humidity
    <<220 * Scale, 42 * Scale, 60 * Scale, 100 * Scale>> } \* the upper hard bounds

\* every vitals at the current time, and one reading that arrives with a
\* timestamp already older than the retention window
ValidCandidates(t) ==
  { Reading(v[1], v[2], v[3], v[4], t) : v \in Vitals }
    \cup { Reading(60 * Scale, 36 * Scale, 25 * Scale, 40 * Scale, t - OldAge) }

FaultyCandidates(t) ==
  { Reading(NaN, 36 * Scale, 25 * Scale, 40 * Scale, t),
    Reading(60 * Scale, NaN, 25 * Scale, 40 * Scale, t),
    Reading(60 * Scale, 36 * Scale, NaN, 40 * Scale, t),
    Reading(60 * Scale, 36 * Scale, 25 * Scale, 40 * Scale, NaN),
    Reading(60 * Scale, 36 * Scale, 25 * Scale, NaN, t),
    Reading(20 * Scale, 36 * Scale, 25 * Scale, Null, t),
    Reading(60 * Scale, 50 * Scale, 25 * Scale, Null, t),
    Reading(60 * Scale, 36 * Scale, 70 * Scale, Null, t),
    Reading(60 * Scale, 36 * Scale, 25 * Scale, 150 * Scale, t) }

Candidates(t) == ValidCandidates(t) \cup FaultyCandidates(t)

\* ----------------------------------------------------------------- actions
InitStream ==
  /\ nAcc = 0
  /\ firstAt = 0
  /\ lastAt = 0
  /\ minGap = Null

\* the three other tasks as setup() created them: none has run yet
InitTasks ==
  /\ dhtTask = [pc |-> "begin", t |-> NaN, h |-> NaN, ambC |-> NaN, objC |-> NaN,
                ok |-> FALSE, cycle |-> 0, okAmb |-> FALSE, okObj |-> FALSE,
                t0 |-> NaN, h0 |-> NaN]
  /\ wsTask = [pc |-> "bpm", bpm |-> NaN, amb |-> NaN, hum |-> NaN, cycle0 |-> -1]
  /\ printTask = [pc |-> "idle", last |-> 0, bpm |-> NaN, t |-> NaN, h |-> NaN,
                  mlxAmb |-> NaN]
  /\ writtenIn = [temp |-> 0, hum |-> 0, mlxAmb |-> 0, mlxObj |-> 0]
  /\ readFrom = [wsAmb |-> 0, prT |-> 0, prMlxAmb |-> 0, torn |-> FALSE]

\* the device when taskPulse enters its loop: the quick baseline taken, the
\* snapshot as declared
InitDevice ==
  /\ millis = BaselineMs
  /\ baseline = QuickBaseline
  /\ lp = QuickBaseline
  /\ thresh = 120
  /\ inPeak = FALSE
  /\ lastBeatMs = 0
  /\ bpmBuf = <<0, 0, 0, 0>>
  /\ bpmIdx = 0
  /\ bpmCount = 0
  /\ g_bpm = 0
  /\ g_lastBeatMs = 0
  /\ g_temp = NaN
  /\ g_hum = NaN
  /\ g_mlxAmb = NaN
  /\ g_mlxObj = NaN
  /\ json = NoFrame
  /\ cycles = 0
  /\ pulseOp = "init"
  /\ instants = <<>>
  /\ dipped = FALSE
  /\ rawIn = QuickBaseline
  /\ slowRun = 0
  /\ fresh = 0
  /\ InitTasks

\* the useState and useRef initial values of MainContainer
InitWs ==
  /\ connStatus = "disconnected"
  /\ socks = <<>>
  /\ wsRef = 0
  /\ heartbeat = 0
  /\ timerRef = FALSE
  /\ timerLive = FALSE
  /\ delayMs = 0
  /\ reconnectAttempts = 0
  /\ manualDisconnect = FALSE
  /\ wsOp = "init"
  /\ closedSock = 0
  /\ sinceOpen = 0
  /\ mounted = TRUE
  /\ quiet = FALSE
  /\ liveIntervals = 0
  /\ liveTimeouts = 0

InitWire ==
  /\ frame = NoFrame
  /\ reading = NoReading

\* the useState and useRef initial values of ResultContainer
InitResult ==
  /\ status = "loading"
  /\ summary = "empty"
  /\ guidelines = "empty"
  /\ report = ""
  /\ loading = FALSE
  /\ lastError = "null"
  /\ inFlight = FALSE
  /\ awaiting = FALSE
  /\ curAggr = NoAggr
  /\ resOp = "init"
  /\ shownAggr = computeAggregates(buf, now)
  /\ requests = 0
  /\ demoMode = "none"
  /\ injections = 0
  /\ injectedInFlight = FALSE

Init ==
  /\ buf = <<>>
  /\ now = T0
  /\ lastOp = "init"
  /\ cand = NoReading
  /\ ret = "none"
  /\ pushed = NoReading
  /\ bufBefore = <<>>
  /\ qFrom = 0
  /\ qTo = 0
  /\ result = <<>>
  /\ size = 0
  /\ aggr = NoAggr
  /\ InitStream
  /\ InitResult
  /\ apiKey = TRUE
  /\ InitWire
  /\ InitWs
  /\ InitDevice

AddReading(r) ==
  /\ LET res == addReading(buf, r, now)
     IN  /\ Len(res.buf) <= MaxBuf
         /\ buf' = res.buf
         /\ ret' = res.ret
         /\ pushed' = res.pushed
  /\ lastOp' = "add"
  /\ cand' = r
  /\ bufBefore' = buf
  /\ qFrom' = 0
  /\ qTo' = 0
  /\ result' = <<>>
  /\ size' = 0
  /\ aggr' = NoAggr
  /\ UNCHANGED now
  /\ UNCHANGED notStore

GetLastHourReadings(from, to) ==
  /\ result' = getLastHourReadings(buf, from, to)
  /\ qFrom' = from
  /\ qTo' = to
  /\ lastOp' = "query"
  /\ bufBefore' = buf
  /\ cand' = NoReading
  /\ ret' = "none"
  /\ pushed' = NoReading
  /\ size' = 0
  /\ aggr' = NoAggr
  /\ UNCHANGED <<buf, now>>
  /\ UNCHANGED notStore

GetBufferSize ==
  /\ size' = getBufferSize(buf)
  /\ lastOp' = "size"
  /\ bufBefore' = buf
  /\ cand' = NoReading
  /\ ret' = "none"
  /\ pushed' = NoReading
  /\ qFrom' = 0
  /\ qTo' = 0
  /\ result' = <<>>
  /\ aggr' = NoAggr
  /\ UNCHANGED <<buf, now>>
  /\ UNCHANGED notStore

ComputeAggregates ==
  /\ aggr' = computeAggregates(buf, now)
  /\ lastOp' = "aggr"
  /\ bufBefore' = buf
  /\ cand' = NoReading
  /\ ret' = "none"
  /\ pushed' = NoReading
  /\ qFrom' = 0
  /\ qTo' = 0
  /\ result' = <<>>
  /\ size' = 0
  /\ UNCHANGED <<buf, now>>
  /\ UNCHANGED notStore

ResetBuffer ==
  /\ buf' = resetBuffer(buf)
  /\ lastOp' = "reset"
  /\ bufBefore' = buf
  /\ cand' = NoReading
  /\ ret' = "none"
  /\ pushed' = NoReading
  /\ qFrom' = 0
  /\ qTo' = 0
  /\ result' = <<>>
  /\ size' = 0
  /\ aggr' = NoAggr
  /\ UNCHANGED now
  /\ UNCHANGED notStore

\* time passes between two calls
Tick(t) ==
  /\ t > now
  /\ now' = t
  /\ lastOp' = "tick"
  /\ bufBefore' = buf
  /\ cand' = NoReading
  /\ ret' = "none"
  /\ pushed' = NoReading
  /\ qFrom' = 0
  /\ qTo' = 0
  /\ result' = <<>>
  /\ size' = 0
  /\ aggr' = NoAggr
  /\ UNCHANGED buf
  /\ UNCHANGED notStore

Next ==
  \/ \E r \in Candidates(now) : AddReading(r)
  \/ \E from \in {0, now}, to \in {now - Step, now} :
       GetLastHourReadings(from, to)
  \/ ResetBuffer
  \/ GetBufferSize
  \/ ComputeAggregates
  \/ \E t \in Instants : Tick(t)

Spec == Init /\ [][Next]_vars

\* ------------------------------------------------------- a stream of readings
MaxStream == 4
StreamGap == 1200000
MaxStreamSteps == 4

\* the arrival times of the stream: every twenty minutes
StreamInstants == { T0 + k * StreamGap : k \in 0..MaxStreamSteps }

\* in-bounds readings of the same vitals, with and without humidity,
\* timestamped at their arrival
StreamCandidates(t) ==
  { Reading(60 * Scale, 36 * Scale, 25 * Scale, 40 * Scale, t),
    Reading(60 * Scale, 36 * Scale, 25 * Scale, Null, t) }

\* addReading of the next reading of the stream
StreamAdd(r) ==
  /\ nAcc < MaxStream
  /\ LET res == addReading(buf, r, now)
     IN  /\ res.ret = "true"
         /\ buf' = res.buf
         /\ ret' = res.ret
         /\ pushed' = res.pushed
  /\ lastOp' = "add"
  /\ cand' = r
  /\ bufBefore' = buf
  /\ qFrom' = 0
  /\ qTo' = 0
  /\ result' = <<>>
  /\ size' = 0
  /\ aggr' = NoAggr
  /\ nAcc' = nAcc + 1
  /\ firstAt' = IF nAcc = 0 THEN now ELSE firstAt
  /\ lastAt' = now
  /\ minGap' = IF nAcc = 0 THEN Null
               ELSE IF minGap = Null \/ now - lastAt < minGap THEN now - lastAt
               ELSE minGap
  /\ UNCHANGED now
  /\ UNCHANGED notStream

NextStream ==
  \/ \E r \in StreamCandidates(now) : StreamAdd(r)
  \/ \E t \in StreamInstants : Tick(t)

SpecStream == Init /\ [][NextStream]_vars

\* ------------------------------------------------------------ result screen
MIN_SAMPLES == 1

\* curCount < MIN_SAMPLES || coveragePct < MIN_COVERAGE, MIN_COVERAGE = 0.001
insufficient(a) ==
  a.recentCount < MIN_SAMPLES \/ a.coveragePct.num * 1000 < a.coveragePct.den

\* ---- injectScenario
Modes == {"good", "fine", "bad-fever", "bad-heat"}

INJECT_N == 600
INJECT_DT == 1000
INJECT_SPAN == 10 * 60000

\* tenths of a unit as a number of the model
Tenths(n) == n * (Scale \div 10)

target(mode) ==
  IF mode = "fine"
  THEN [hr |-> Tenths(950), body |-> Tenths(373), amb |-> Tenths(260),
        hum |-> Tenths(450), mlxObj |-> Tenths(373), mlxAmb |-> Tenths(260)]
  ELSE IF mode = "bad-fever"
  THEN [hr |-> Tenths(1200), body |-> Tenths(382), amb |-> Tenths(250),
        hum |-> Tenths(450), mlxObj |-> Tenths(382), mlxAmb |-> Tenths(250)]
  ELSE IF mode = "bad-heat"
  THEN [hr |-> Tenths(1100), body |-> Tenths(374), amb |-> Tenths(320),
        hum |-> Tenths(750), mlxObj |-> Tenths(374), mlxAmb |-> Tenths(320)]
  ELSE [hr |-> Tenths(720), body |-> Tenths(367), amb |-> Tenths(240),
        hum |-> Tenths(400), mlxObj |-> Tenths(367), mlxAmb |-> Tenths(240)]

\* Number.isFinite(mean) ? mean : Math.max(floor, target - back)
startVal(mean, floor, tg, back) ==
  IF mean.n > 0 THEN mean.sum \div mean.n ELSE Max(floor, tg - back)

startVals(a, tg) ==
  [hr     |-> startVal(a.hrMean, Tenths(500), tg.hr, Tenths(100)),
   body   |-> startVal(a.bodyMean, Tenths(360), tg.body, Tenths(3)),
   amb    |-> startVal(a.ambMean, Tenths(180), tg.amb, Tenths(20)),
   hum    |-> startVal(a.humidityMean, Tenths(350), tg.hum, Tenths(50)),
   mlxObj |-> startVal(a.mlxObjMean, Tenths(360), tg.mlxObj, Tenths(3)),
   mlxAmb |-> startVal(a.mlxAmbMean, Tenths(180), tg.mlxAmb, Tenths(20))]

\* lerp(a, b, t) with t = k / INJECT_N
lerp(a, b, k) == a + ((b - a) * k) \div INJECT_N

\* the reading of pass i of the loop, i from 0
injected(sv, tg, start, i) ==
  [heartRate    |-> lerp(sv.hr, tg.hr, i + 1),
   bodyTempC    |-> lerp(sv.body, tg.body, i + 1),
   ambientTempC |-> lerp(sv.amb, tg.amb, i + 1),
   humidity     |-> lerp(sv.hum, tg.hum, i + 1),
   mlxObjectC   |-> lerp(sv.mlxObj, tg.mlxObj, i + 1),
   mlxAmbientC  |-> lerp(sv.mlxAmb, tg.mlxAmb, i + 1),
   timestamp    |-> start + i * INJECT_DT]

\* the passes lo .. hi - 1 of the loop on buffer b: the buffer they leave,
\* the first half of the passes being done before the second
RECURSIVE fillFrom(_, _, _, _, _, _)
fillFrom(b, lo, hi, sv, tg, t) ==
  IF hi <= lo THEN b
  ELSE IF hi = lo + 1
  THEN addReading(b, injected(sv, tg, t - INJECT_SPAN, lo), t).buf
  ELSE LET mid  == (lo + hi) \div 2
           left == fillFrom(b, lo, mid, sv, tg, t)
       IN  IF left = <<>> THEN fillFrom(<<>>, mid, hi, sv, tg, t)
           ELSE fillFrom(left, mid, hi, sv, tg, t)

\* an injectScenario that does not reset the buffer
injectedBuffer_noReset(b, mode, t) ==
  LET tg == target(mode)
      sv == startVals(computeAggregates(b, t), tg)
  IN  fillFrom(b, 0, INJECT_N, sv, tg, t)

\* the buffer injectScenario(mode) leaves of b at Date.now() = t
injectedBuffer(b, mode, t) ==
  LET b0 == resetBuffer(b)
      tg == target(mode)
      sv == startVals(computeAggregates(b0, t), tg)
  IN  fillFrom(b0, 0, INJECT_N, sv, tg, t)

\* the statuses coerceHealthSummary can return
LlmStatus == {"good", "fine", "bad"}

\* the errors fetchHealthSummary can throw once a key is set: the ten
\* second timeout, a rejected request, JSON.parse of the answer
FetchErrors == {"Request timed out", "429", "Unexpected token"}

\* what the caller of runLLM has set the state to
shown ==
  [status |-> status, summary |-> summary, guidelines |-> guidelines,
   report |-> report, aggr |-> shownAggr]

\* runLLM over buffer b up to its first await, and to its end when it does
\* not get there
runLLM(b, pre) ==
  IF inFlight
  THEN /\ resOp' = "blocked"
       /\ status' = pre.status
       /\ summary' = pre.summary
       /\ guidelines' = pre.guidelines
       /\ report' = pre.report
       /\ shownAggr' = pre.aggr
       /\ UNCHANGED <<loading, lastError, inFlight, awaiting, curAggr, requests>>
  ELSE LET a == computeAggregates(b, now)
       IN  /\ curAggr' = a
           /\ shownAggr' = a
           /\ lastError' = "null"
           /\ status' = "loading"
           /\ IF insufficient(a)
              THEN /\ summary' = "not enough data"
                   /\ guidelines' = "empty"
                   /\ report' = "samples and coverage"
                   /\ inFlight' = FALSE
                   /\ loading' = FALSE
                   /\ awaiting' = FALSE
                   /\ resOp' = "skipped"
                   /\ requests' = requests
              ELSE /\ inFlight' = TRUE
                   /\ loading' = TRUE
                   /\ awaiting' = TRUE
                   /\ resOp' = "sent"
                   /\ requests' = requests + 1
                   /\ summary' = pre.summary
                   /\ guidelines' = pre.guidelines
                   /\ report' = pre.report

\* the user presses generate, or the effect runs after the mount
RunLLM ==
  /\ runLLM(buf, shown)
  /\ injectedInFlight' = (inFlight /\ injectedInFlight)
  /\ UNCHANGED <<apiKey, demoMode, injections>>
  /\ UNCHANGED notResult

\* injectScenario(mode) up to the first await of its runLLM
InjectScenario(mode) ==
  /\ LET filled == injectedBuffer(buf, mode, now)
     IN  /\ buf' = filled
         /\ runLLM(filled, [status |-> "loading", summary |-> "empty",
                            guidelines |-> "empty", report |-> "",
                            aggr |-> computeAggregates(filled, now)])
  /\ demoMode' = mode
  /\ injections' = injections + 1
  /\ injectedInFlight' = inFlight
  /\ lastOp' = "inject"
  /\ bufBefore' = buf
  /\ UNCHANGED <<now, cand, ret, pushed, qFrom, qTo, result, size, aggr>>
  /\ UNCHANGED apiKey
  /\ UNCHANGED <<streamVars, wireVars, wsVars, pulseVars, taskVars>>

\* a rejection that skips the finally block
FetchRejects_noFinally(e) ==
  /\ awaiting
  /\ apiKey <=> e # "OpenAI API key missing"
  /\ lastError' = e
  /\ summary' = "empty"
  /\ guidelines' = "empty"
  /\ report' = "falling back"
  /\ awaiting' = FALSE
  /\ resOp' = "rejected"
  /\ requests' = requests - 1
  /\ UNCHANGED <<status, curAggr, apiKey, shownAggr, demoMode, injections, injectedInFlight,
                 inFlight, loading>>
  /\ UNCHANGED notResult

\* fetchHealthSummary returns a summary
FetchResolves(st) ==
  /\ awaiting
  /\ apiKey
  /\ status' = st
  /\ summary' = "ai"
  /\ guidelines' = "ai"
  /\ report' = ""
  /\ inFlight' = FALSE
  /\ loading' = FALSE
  /\ awaiting' = FALSE
  /\ resOp' = "resolved"
  /\ requests' = requests - 1
  /\ UNCHANGED <<lastError, curAggr, apiKey, shownAggr, demoMode, injections, injectedInFlight>>
  /\ UNCHANGED notResult

\* fetchHealthSummary throws: catch, which sets no status, then finally
FetchRejects(e) ==
  /\ awaiting
  /\ apiKey <=> e # "OpenAI API key missing"
  /\ lastError' = e
  /\ summary' = "empty"
  /\ guidelines' = "empty"
  /\ report' = "falling back"
  /\ inFlight' = FALSE
  /\ loading' = FALSE
  /\ awaiting' = FALSE
  /\ resOp' = "rejected"
  /\ requests' = requests - 1
  /\ UNCHANGED <<status, curAggr, apiKey, shownAggr, demoMode, injections, injectedInFlight>>
  /\ UNCHANGED notResult

MaxRows == 5

\* heart rate, body temperature, ambient temperature, humidity
ResultVitals ==
  { <<101 * Scale, 365 * (Scale \div 10), 25 * Scale, 40 * Scale>>,
    <<70 * Scale, 365 * (Scale \div 10), 25 * Scale, 40 * Scale>>,
    <<90 * Scale, 375 * (Scale \div 10), 25 * Scale, Null>>,
    <<60 * Scale, 38 * Scale, 25 * Scale, 40 * Scale>> }

\* the buffer after n readings of the same vitals, one a second up to t
steady(v, n, t) ==
  [i \in 1..n |-> Reading(v[1], v[2], v[3], v[4], t - (n - i) * 1000)]

ResultBuffers == { steady(v, n, T0) : v \in ResultVitals, n \in 0..MaxRows }

\* the screen opens over a buffer filled before
InitResultScreen ==
  /\ buf \in ResultBuffers
  /\ now = T0
  /\ lastOp = "init"
  /\ cand = NoReading
  /\ ret = "none"
  /\ pushed = NoReading
  /\ bufBefore = <<>>
  /\ qFrom = 0
  /\ qTo = 0
  /\ result = <<>>
  /\ size = 0
  /\ aggr = NoAggr
  /\ InitStream
  /\ InitResult
  /\ apiKey \in BOOLEAN
  /\ InitWire
  /\ InitWs
  /\ InitDevice

NextResult ==
  \/ RunLLM
  \/ \E st \in LlmStatus : FetchResolves(st)
  \/ \E e \in FetchErrors \cup {"OpenAI API key missing"} : FetchRejects(e)

SpecResult == InitResultScreen /\ [][NextResult]_vars

\* the promise of withTimeout settles: the request answers or fails, or the
\* ten second timeout rejects it
Settle ==
  \/ \E st \in LlmStatus : FetchResolves(st)
  \/ \E e \in FetchErrors \cup {"OpenAI API key missing"} : FetchRejects(e)

SpecResultFair == InitResultScreen /\ [][NextResult]_vars /\ WF_vars(Settle)

\* ---- the demo button
\* the screen opens with a key set, over an empty buffer or a short one
DemoBuffers ==
  { steady(<<70 * Scale, 365 * (Scale \div 10), 25 * Scale, 40 * Scale>>, n, T0) :
      n \in {0, 4, 5} }

MaxInjections == 1

NextDemo ==
  \/ RunLLM
  \/ \E mode \in Modes : injections < MaxInjections /\ InjectScenario(mode)
  \/ \E st \in LlmStatus : FetchResolves(st)
  \/ FetchRejects("Request timed out")

InitDemo == InitResultScreen /\ buf \in DemoBuffers /\ apiKey

SpecDemo == InitDemo /\ [][NextDemo]_vars

\* ---------------------------------------------------------- telemetry handler
\* bpm, object temperature, ambient temperature and humidity of the device
\* snapshot, in units of 1 / Scale
Snapshots ==
  { <<725000, 364560, 251200, 404000>>,     \* 72.5 bpm, 36.456, 25.12, 40.4
    <<720400, 365000, 250000, 400000>>,     \* 72.04 bpm, 36.5, 25.0, 40.0
    <<0, 365000, 250000, 400000>>,          \* no beat
    <<720000, NaN, 250000, NaN>>,           \* no object temperature, no humidity
    <<720000, 365000, NaN, 400000>>,        \* no ambient temperature
    <<NaN, 365000, 250000, 400000>> }       \* no heart rate

\* the ts field of a message: missing, not a number, an uptime, exactly 1e12,
\* and epoch times
FrameTs(t) == {Null, NaN, 5000, EPOCH_FLOOR, EPOCH_FLOOR + 1, t - Step, t}

Frames(t) ==
  { telemetry(v[1], v[2], v[3], v[4], ts) : v \in Snapshots, ts \in FrameTs(t) }

\* the readings the buffer holds at most while messages are handled
MaxStored == 1

\* ws.onmessage
OnMessage(data) ==
  /\ frame' = data
  /\ LET payload == wsPayload(data, now)
         res     == addReading(buf, payload, now)
     IN  /\ Len(res.buf) <= MaxStored
         /\ reading' = payload
         /\ cand' = payload
         /\ buf' = res.buf
         /\ ret' = res.ret
         /\ pushed' = res.pushed
         /\ size' = getBufferSize(res.buf)
  /\ lastOp' = "message"
  /\ bufBefore' = buf
  /\ qFrom' = 0
  /\ qTo' = 0
  /\ result' = <<>>
  /\ aggr' = NoAggr
  /\ UNCHANGED now
  /\ UNCHANGED notWire

NextWire ==
  \/ \E data \in Frames(now) : OnMessage(data)
  \/ \E t \in Instants : Tick(t)

SpecWire == Init /\ [][NextWire]_vars

\* -------------------------------------------------------- websocket connection
MaxSockets == 6

Min(a, b) == IF a <= b THEN a ELSE b

\* attempt = Math.min(attempts, 4); Math.min(1000 * Math.pow(2, attempt), 15000)
backoffDelay(attempts) ==
  LET attempt == Min(attempts, 4)
  IN  Min(1000 * 2 ^ attempt, 15000)

\* a close() that leaves the socket as it is
closeSocket_leavesOpen(ss, i) == ss

\* ws.close(): a socket that is connecting or open starts closing
closeSocket(ss, i) ==
  IF i # 0 /\ ss[i] \in {"CONNECTING", "OPEN"} THEN [ss EXCEPT ![i] = "CLOSING"] ELSE ss

\* clearHeartbeat: the intervals left of n
clearHeartbeat(n) == IF heartbeat # 0 THEN n - 1 ELSE n

\* clearReconnectTimer: the timeouts left of n, the one of the reference
\* being still pending or not
clearReconnectTimer(n, pending) == IF timerRef /\ pending THEN n - 1 ELSE n

\* the guard of connectWs lets the call through
pastGuard == ~(wsRef # 0 /\ socks[wsRef] \in {"OPEN", "CONNECTING"})

\* connectWs: nothing while the current socket is open or connecting;
\* otherwise teardown and a new socket
connectWs(attempts, op) ==
  IF wsRef # 0 /\ socks[wsRef] \in {"OPEN", "CONNECTING"}
  THEN /\ reconnectAttempts' = attempts
       /\ wsOp' = op
       /\ UNCHANGED <<connStatus, socks, wsRef, heartbeat, timerRef, manualDisconnect>>
  ELSE /\ Len(socks) < MaxSockets
       /\ reconnectAttempts' = attempts
       /\ wsOp' = op
       /\ manualDisconnect' = FALSE
       /\ heartbeat' = 0
       /\ timerRef' = FALSE
       /\ connStatus' = "connecting"
       /\ socks' = Append(closeSocket(socks, wsRef), "CONNECTING")
       /\ wsRef' = Len(socks) + 1

\* the user presses connect
OnConnect ==
  /\ mounted
  /\ connectWs(reconnectAttempts, "connect")
  /\ timerLive' = (timerLive /\ wsRef # 0 /\ socks[wsRef] \in {"OPEN", "CONNECTING"})
  /\ liveIntervals' = IF pastGuard THEN clearHeartbeat(liveIntervals) ELSE liveIntervals
  /\ liveTimeouts' = IF pastGuard THEN clearReconnectTimer(liveTimeouts, timerLive)
                     ELSE liveTimeouts
  /\ quiet' = FALSE
  /\ UNCHANGED <<delayMs, closedSock, sinceOpen, mounted>>
  /\ UNCHANGED notWs

\* the user presses disconnect
OnDisconnect ==
  /\ mounted
  /\ manualDisconnect' = TRUE
  /\ reconnectAttempts' = 0
  /\ timerRef' = FALSE
  /\ timerLive' = FALSE
  /\ heartbeat' = 0
  /\ socks' = closeSocket(socks, wsRef)
  /\ wsRef' = 0
  /\ connStatus' = "disconnected"
  /\ wsOp' = "disconnect"
  /\ sinceOpen' = 0
  /\ liveIntervals' = clearHeartbeat(liveIntervals)
  /\ liveTimeouts' = clearReconnectTimer(liveTimeouts, timerLive)
  /\ quiet' = TRUE
  /\ UNCHANGED <<delayMs, closedSock, mounted>>
  /\ UNCHANGED notWs

\* the component unmounts: the cleanup of the effect
OnUnmount ==
  /\ mounted
  /\ mounted' = FALSE
  /\ manualDisconnect' = TRUE
  /\ heartbeat' = 0
  /\ timerRef' = FALSE
  /\ timerLive' = FALSE
  /\ socks' = closeSocket(socks, wsRef)
  /\ wsRef' = 0
  /\ wsOp' = "unmount"
  /\ liveIntervals' = clearHeartbeat(liveIntervals)
  /\ liveTimeouts' = clearReconnectTimer(liveTimeouts, timerLive)
  /\ quiet' = TRUE
  /\ UNCHANGED <<connStatus, reconnectAttempts, delayMs, closedSock, sinceOpen>>
  /\ UNCHANGED notWs

\* the open event of socket i: ws.onopen
OnOpen(i) ==
  /\ socks[i] = "CONNECTING"
  /\ socks' = [socks EXCEPT ![i] = "OPEN"]
  /\ connStatus' = "connected"
  /\ reconnectAttempts' = 0
  /\ heartbeat' = i
  /\ wsOp' = "open"
  /\ sinceOpen' = 0
  /\ liveIntervals' = clearHeartbeat(liveIntervals) + 1
  /\ UNCHANGED <<wsRef, timerRef, timerLive, delayMs, manualDisconnect, closedSock,
                 mounted, quiet, liveTimeouts>>
  /\ UNCHANGED notWs

\* an onclose that schedules the reconnect whatever manualDisconnectRef says
onclose_alwaysReconnects(i) ==
  /\ socks' = [socks EXCEPT ![i] = "CLOSED"]
  /\ connStatus' = "disconnected"
  /\ heartbeat' = 0
  /\ closedSock' = i
  /\ liveIntervals' = clearHeartbeat(liveIntervals)
  /\ delayMs' = backoffDelay(reconnectAttempts)
  /\ timerRef' = TRUE
  /\ timerLive' = TRUE
  /\ liveTimeouts' = clearReconnectTimer(liveTimeouts, timerLive) + 1
  /\ UNCHANGED <<wsRef, reconnectAttempts, manualDisconnect, sinceOpen, mounted, quiet>>
  /\ UNCHANGED notWs

\* ws.onclose of socket i
onclose(i) ==
  /\ socks' = [socks EXCEPT ![i] = "CLOSED"]
  /\ connStatus' = "disconnected"
  /\ heartbeat' = 0
  /\ closedSock' = i
  /\ liveIntervals' = clearHeartbeat(liveIntervals)
  /\ IF ~manualDisconnect
     THEN /\ delayMs' = backoffDelay(reconnectAttempts)
          /\ timerRef' = TRUE
          /\ timerLive' = TRUE
          /\ liveTimeouts' = clearReconnectTimer(liveTimeouts, timerLive) + 1
     ELSE UNCHANGED <<delayMs, timerRef, timerLive, liveTimeouts>>
  /\ UNCHANGED <<wsRef, reconnectAttempts, manualDisconnect, sinceOpen, mounted, quiet>>
  /\ UNCHANGED notWs

\* the connection of socket i fails: its error event, ws.onerror, which sets
\* the status to "error", and right after it its close event
OnError(i) ==
  /\ socks[i] \in {"CONNECTING", "OPEN"}
  /\ wsOp' = "error"
  /\ onclose(i)

\* the close event of socket i, closed by either side
OnClose(i) ==
  /\ socks[i] # "CLOSED"
  /\ wsOp' = "close"
  /\ onclose(i)

\* the reconnect timeout fires
OnReconnectTimer ==
  /\ timerLive
  /\ timerLive' = FALSE
  /\ connectWs(reconnectAttempts + 1, "timer")
  /\ sinceOpen' = IF Len(socks') > Len(socks) THEN sinceOpen + 1 ELSE sinceOpen
  /\ liveIntervals' = IF pastGuard THEN clearHeartbeat(liveIntervals) ELSE liveIntervals
  /\ liveTimeouts' = liveTimeouts - 1
  /\ UNCHANGED <<delayMs, closedSock, mounted, quiet>>
  /\ UNCHANGED notWs

NextWs ==
  \/ OnConnect
  \/ OnDisconnect
  \/ OnUnmount
  \/ \E i \in 1..Len(socks) : OnOpen(i)
  \/ \E i \in 1..Len(socks) : OnError(i)
  \/ \E i \in 1..Len(socks) : OnClose(i)
  \/ OnReconnectTimer

SpecWs == Init /\ [][NextWs]_vars

\* ----------------------------------------------------------------- device
\* the samples analogRead returns: below and above the baseline
RawLevels == {1500, 2500}

\* the time from one cycle of taskPulse to the next as millis() shows it
CycleGaps == {100, 200, 1300, 3100}

MaxCycles == 5

\* one pass of the loop of taskPulse
PulseCycle(raw, gap) ==
  /\ cycles' = cycles + 1
  /\ LET lp1    == lp + cdiv((raw - lp) * LP_ALPHA, 16)
         ac     == lp1 - baseline
         base1  == baseline + cdiv(raw - baseline, 128)
         th1    == nextThresh(thresh, Abs(ac))
         t      == millis + gap
         beat   == risingEdge(inPeak, ac, th1, t, lastBeatMs)
         ibi    == t - lastBeatMs
         push   == beat /\ validIbi(lastBeatMs, ibi)
         buf1   == IF push THEN [bpmBuf EXCEPT ![bpmIdx + 1] = instantBpm(ibi)]
                   ELSE bpmBuf
         count1 == IF push /\ bpmCount < 4 THEN bpmCount + 1 ELSE bpmCount
         bpm1   == IF push THEN smoothedBpm(buf1, count1) ELSE g_bpm
         last1  == IF beat THEN t ELSE g_lastBeatMs
         peak1  == IF beat THEN TRUE ELSE inPeak
     IN  /\ millis' = t
         /\ lp' = lp1
         /\ baseline' = base1
         /\ thresh' = th1
         /\ bpmBuf' = buf1
         /\ bpmIdx' = IF push THEN (bpmIdx + 1) % 4 ELSE bpmIdx
         /\ bpmCount' = count1
         /\ lastBeatMs' = IF beat THEN t ELSE lastBeatMs
         /\ g_lastBeatMs' = last1
         /\ inPeak' = peakExit(peak1, ac)
         /\ g_bpm' = IF silent(t, last1) THEN 0 ELSE bpm1
         /\ pulseOp' = IF beat THEN "beat" ELSE "cycle"
         /\ instants' = IF push THEN Append(instants, instantBpm(ibi))
                        ELSE instants
         /\ dipped' = IF beat THEN FALSE ELSE (dipped \/ ac < 0)
         /\ slowRun' = IF ~beat \/ lastBeatMs = 0 THEN slowRun
                       ELSE IF ibi >= 1500 /\ ibi <= 3000 THEN slowRun + 1
                       ELSE 0
         /\ fresh' = IF t - last1 > 3000 THEN 0
                     ELSE IF push THEN fresh + 1 ELSE fresh
  /\ rawIn' = raw
  /\ UNCHANGED <<g_temp, g_hum, g_mlxAmb, g_mlxObj, json>>
  /\ UNCHANGED taskVars
  /\ UNCHANGED notDevice

\* one pass of the loop of taskWsBroadcaster
Broadcast ==
  /\ json' = telemetry(g_bpm, g_mlxObj, g_temp, g_hum, millis)
  /\ pulseOp' = "broadcast"
  /\ UNCHANGED <<millis, baseline, lp, thresh, inPeak, lastBeatMs, bpmBuf, bpmIdx,
                 bpmCount, g_bpm, g_lastBeatMs, g_temp, g_hum, g_mlxAmb, g_mlxObj,
                 cycles, instants, dipped, rawIn, slowRun, fresh>>
  /\ UNCHANGED taskVars
  /\ UNCHANGED notDevice

NextDevice ==
  \/ \E raw \in RawLevels, gap \in CycleGaps :
        cycles < MaxCycles /\ PulseCycle(raw, gap)
  \/ Broadcast

SpecDevice == Init /\ [][NextDevice]_vars

\* ------------------------------------------------------------ device tasks
\* what dht.readTemperature() and dht.readHumidity() return: NAN on a failed
\* read
DhtTemps == {NaN, 24 * Scale, 25 * Scale}
DhtHums == {NaN, 40 * Scale}

\* the words the two registers of the MLX90614 deliver: 24.85 and 36.85
\* degrees
AmbWords == {14900}
ObjWords == {15500}

\* passes of the loop of taskDHT when it runs next to the broadcaster
MaxSamples == 2

\* the pace of taskPulse next to the three other tasks, its passes and those
\* of taskDHT
TaskGap == 700
MaxTaskCycles == 1
MaxTaskSamples == 1

\* what the sensors deliver when the four tasks run together: a pulse, and
\* reads that all succeed
TaskLevels == {2500}
TaskTemps == DhtTemps \ {NaN}
TaskHums == DhtHums \ {NaN}

\* the locals of taskPulse
pulseLocals == <<millis, baseline, lp, thresh, inPeak, lastBeatMs, bpmBuf, bpmIdx,
                bpmCount, cycles, pulseOp, instants, dipped, rawIn, slowRun,
                fresh>>

\* taskDHT: t = dht.readTemperature(); h = dht.readHumidity(); and the test
\* of the two values
SampleDht(t, h) ==
  /\ dhtTask.pc \in {"begin", "delay"}
  /\ dhtTask' = [dhtTask EXCEPT !.pc = IF bothValid(t, h) THEN "temp" ELSE "mlx",
                                !.t = t, !.h = h, !.cycle = @ + 1,
                                !.t0 = g_temp, !.h0 = g_hum]
  /\ UNCHANGED <<g_bpm, g_lastBeatMs, g_temp, g_hum, g_mlxAmb, g_mlxObj, json>>
  /\ UNCHANGED <<pulseLocals, wsTask, printTask, writtenIn, readFrom>>
  /\ UNCHANGED notDevice

\* taskDHT: g_temp = t;
WriteTemp ==
  /\ dhtTask.pc = "temp"
  /\ g_temp' = dhtTask.t
  /\ writtenIn' = [writtenIn EXCEPT !.temp = dhtTask.cycle]
  /\ dhtTask' = [dhtTask EXCEPT !.pc = "hum"]
  /\ UNCHANGED <<g_bpm, g_lastBeatMs, g_hum, g_mlxAmb, g_mlxObj, json>>
  /\ UNCHANGED <<pulseLocals, wsTask, printTask, readFrom>>
  /\ UNCHANGED notDevice

\* taskDHT: g_hum = h;
WriteHum ==
  /\ dhtTask.pc = "hum"
  /\ g_hum' = dhtTask.h
  /\ writtenIn' = [writtenIn EXCEPT !.hum = dhtTask.cycle]
  /\ dhtTask' = [dhtTask EXCEPT !.pc = "mlx"]
  /\ UNCHANGED <<g_bpm, g_lastBeatMs, g_temp, g_mlxAmb, g_mlxObj, json>>
  /\ UNCHANGED <<pulseLocals, wsTask, printTask, readFrom>>
  /\ UNCHANGED notDevice

\* taskDHT: if (readMLX90614(ambC, objC))
SampleMlx(okAmb, okObj, ambRaw, objRaw) ==
  /\ dhtTask.pc = "mlx"
  /\ LET r == readMLX90614(okAmb, okObj, ambRaw, objRaw, dhtTask.ambC,
                           dhtTask.objC)
     IN  dhtTask' = [dhtTask EXCEPT !.pc = "mlxAmb", !.ok = r.ok,
                                    !.ambC = r.ambientC, !.objC = r.objectC,
                                    !.okAmb = okAmb, !.okObj = okObj]
  /\ UNCHANGED <<g_bpm, g_lastBeatMs, g_temp, g_hum, g_mlxAmb, g_mlxObj, json>>
  /\ UNCHANGED <<pulseLocals, wsTask, printTask, writtenIn, readFrom>>
  /\ UNCHANGED notDevice

\* taskDHT: g_mlxAmb = ambC; or g_mlxAmb = NAN;
WriteMlxAmb ==
  /\ dhtTask.pc = "mlxAmb"
  /\ g_mlxAmb' = IF dhtTask.ok THEN dhtTask.ambC ELSE NaN
  /\ writtenIn' = [writtenIn EXCEPT !.mlxAmb = dhtTask.cycle]
  /\ dhtTask' = [dhtTask EXCEPT !.pc = "mlxObj"]
  /\ UNCHANGED <<g_bpm, g_lastBeatMs, g_temp, g_hum, g_mlxObj, json>>
  /\ UNCHANGED <<pulseLocals, wsTask, printTask, readFrom>>
  /\ UNCHANGED notDevice

\* taskDHT: g_mlxObj = objC; or g_mlxObj = NAN; and vTaskDelay
WriteMlxObj ==
  /\ dhtTask.pc = "mlxObj"
  /\ g_mlxObj' = IF dhtTask.ok THEN dhtTask.objC ELSE NaN
  /\ writtenIn' = [writtenIn EXCEPT !.mlxObj = dhtTask.cycle]
  /\ dhtTask' = [dhtTask EXCEPT !.pc = "delay"]
  /\ UNCHANGED <<g_bpm, g_lastBeatMs, g_temp, g_hum, g_mlxAmb, json>>
  /\ UNCHANGED <<pulseLocals, wsTask, printTask, readFrom>>
  /\ UNCHANGED notDevice

\* taskWsBroadcaster: float bpm = g_bpm;
WsReadBpm ==
  /\ wsTask.pc = "bpm"
  /\ wsTask' = [wsTask EXCEPT !.pc = "amb", !.bpm = g_bpm,
                              !.cycle0 = IF dhtTask.pc = "delay"
                                         THEN dhtTask.cycle ELSE -1]
  /\ UNCHANGED <<g_bpm, g_lastBeatMs, g_temp, g_hum, g_mlxAmb, g_mlxObj, json>>
  /\ UNCHANGED <<pulseLocals, dhtTask, printTask, writtenIn, readFrom>>
  /\ UNCHANGED notDevice

\* taskWsBroadcaster: float amb = g_temp;
WsReadAmb ==
  /\ wsTask.pc = "amb"
  /\ wsTask' = [wsTask EXCEPT !.pc = "hum", !.amb = g_temp]
  /\ readFrom' = [readFrom EXCEPT !.wsAmb = writtenIn.temp]
  /\ UNCHANGED <<g_bpm, g_lastBeatMs, g_temp, g_hum, g_mlxAmb, g_mlxObj, json>>
  /\ UNCHANGED <<pulseLocals, dhtTask, printTask, writtenIn>>
  /\ UNCHANGED notDevice

\* taskWsBroadcaster: float hum = g_hum;
WsReadHum ==
  /\ wsTask.pc = "hum"
  /\ wsTask' = [wsTask EXCEPT !.pc = "body", !.hum = g_hum]
  /\ readFrom' = [readFrom EXCEPT !.wsAmb = 0,
                                  !.torn = @ \/ writtenIn.hum # readFrom.wsAmb]
  /\ UNCHANGED <<g_bpm, g_lastBeatMs, g_temp, g_hum, g_mlxAmb, g_mlxObj, json>>
  /\ UNCHANGED <<pulseLocals, dhtTask, printTask, writtenIn>>
  /\ UNCHANGED notDevice

\* a broadcaster that records the time of its message in the snapshot
WsSend_stamps ==
  /\ wsTask.pc = "body"
  /\ wsTask' = [wsTask EXCEPT !.pc = "bpm", !.bpm = NaN, !.amb = NaN,
                              !.hum = NaN]
  /\ json' = telemetry(wsTask.bpm, g_mlxObj, wsTask.amb, wsTask.hum, millis)
  /\ g_lastBeatMs' = millis
  /\ UNCHANGED <<g_bpm, g_temp, g_hum, g_mlxAmb, g_mlxObj>>
  /\ UNCHANGED <<pulseLocals, dhtTask, printTask, writtenIn, readFrom>>
  /\ UNCHANGED notDevice

\* taskWsBroadcaster: float body = g_mlxObj; ts = millis(); the message is
\* built and sent, and the task sleeps
WsSend ==
  /\ wsTask.pc = "body"
  /\ wsTask' = [wsTask EXCEPT !.pc = "bpm", !.bpm = NaN, !.amb = NaN,
                              !.hum = NaN]
  /\ json' = telemetry(wsTask.bpm, g_mlxObj, wsTask.amb, wsTask.hum, millis)
  /\ UNCHANGED <<g_bpm, g_lastBeatMs, g_temp, g_hum, g_mlxAmb, g_mlxObj>>
  /\ UNCHANGED <<pulseLocals, dhtTask, printTask, writtenIn, readFrom>>
  /\ UNCHANGED notDevice

\* taskPrint: if (now - last >= 1000) { last = now; float bpm = g_bpm;
PrintBegin ==
  /\ printTask.pc = "idle"
  /\ millis - printTask.last >= 1000
  /\ printTask' = [printTask EXCEPT !.pc = "t", !.last = millis, !.bpm = g_bpm]
  /\ UNCHANGED <<g_bpm, g_lastBeatMs, g_temp, g_hum, g_mlxAmb, g_mlxObj, json>>
  /\ UNCHANGED <<pulseLocals, dhtTask, wsTask, writtenIn, readFrom>>
  /\ UNCHANGED notDevice

\* taskPrint: float t = g_temp;
PrintReadT ==
  /\ printTask.pc = "t"
  /\ printTask' = [printTask EXCEPT !.pc = "h", !.t = g_temp]
  /\ readFrom' = [readFrom EXCEPT !.prT = writtenIn.temp]
  /\ UNCHANGED <<g_bpm, g_lastBeatMs, g_temp, g_hum, g_mlxAmb, g_mlxObj, json>>
  /\ UNCHANGED <<pulseLocals, dhtTask, wsTask, writtenIn>>
  /\ UNCHANGED notDevice

\* taskPrint: float h = g_hum;
PrintReadH ==
  /\ printTask.pc = "h"
  /\ printTask' = [printTask EXCEPT !.pc = "mlxAmb", !.h = g_hum]
  /\ readFrom' = [readFrom EXCEPT !.prT = 0,
                                  !.torn = @ \/ writtenIn.hum # readFrom.prT]
  /\ UNCHANGED <<g_bpm, g_lastBeatMs, g_temp, g_hum, g_mlxAmb, g_mlxObj, json>>
  /\ UNCHANGED <<pulseLocals, dhtTask, wsTask, writtenIn>>
  /\ UNCHANGED notDevice

\* taskPrint: float mlxAmb = g_mlxAmb;
PrintReadMlxAmb ==
  /\ printTask.pc = "mlxAmb"
  /\ printTask' = [printTask EXCEPT !.pc = "mlxObj", !.mlxAmb = g_mlxAmb]
  /\ readFrom' = [readFrom EXCEPT !.prMlxAmb = writtenIn.mlxAmb]
  /\ UNCHANGED <<g_bpm, g_lastBeatMs, g_temp, g_hum, g_mlxAmb, g_mlxObj, json>>
  /\ UNCHANGED <<pulseLocals, dhtTask, wsTask, writtenIn>>
  /\ UNCHANGED notDevice

\* taskPrint: float mlxObj = g_mlxObj; the line is printed
PrintReadMlxObj ==
  /\ printTask.pc = "mlxObj"
  /\ printTask' = [printTask EXCEPT !.pc = "idle", !.bpm = NaN, !.t = NaN,
                                    !.h = NaN, !.mlxAmb = NaN]
  /\ readFrom' = [readFrom EXCEPT !.prMlxAmb = 0,
                                  !.torn = @ \/ writtenIn.mlxObj # readFrom.prMlxAmb]
  /\ UNCHANGED <<g_bpm, g_lastBeatMs, g_temp, g_hum, g_mlxAmb, g_mlxObj, json>>
  /\ UNCHANGED <<pulseLocals, dhtTask, wsTask, writtenIn>>
  /\ UNCHANGED notDevice

\* taskDHT next to taskWsBroadcaster
NextSampler ==
  \/ \E t \in DhtTemps, h \in DhtHums :
        dhtTask.cycle < MaxSamples /\ SampleDht(t, h)
  \/ WriteTemp
  \/ WriteHum
  \/ \E okAmb \in BOOLEAN, okObj \in BOOLEAN, ambRaw \in AmbWords,
        objRaw \in ObjWords : SampleMlx(okAmb, okObj, ambRaw, objRaw)
  \/ WriteMlxAmb
  \/ WriteMlxObj
  \/ WsReadBpm
  \/ WsReadAmb
  \/ WsReadHum
  \/ WsSend

SpecSampler == Init /\ [][NextSampler]_vars

\* the four tasks of the device, interleaved at every access to the snapshot
NextTasks ==
  \/ \E raw \in TaskLevels : cycles < MaxTaskCycles /\ PulseCycle(raw, TaskGap)
  \/ \E t \in TaskTemps, h \in TaskHums :
        dhtTask.cycle < MaxTaskSamples /\ SampleDht(t, h)
  \/ WriteTemp
  \/ WriteHum
  \/ \E ambRaw \in AmbWords, objRaw \in ObjWords :
        SampleMlx(TRUE, TRUE, ambRaw, objRaw)
  \/ WriteMlxAmb
  \/ WriteMlxObj
  \/ WsReadBpm
  \/ WsReadAmb
  \/ WsReadHum
  \/ WsSend
  \/ PrintBegin
  \/ PrintReadT
  \/ PrintReadH
  \/ PrintReadMlxAmb
  \/ PrintReadMlxObj

SpecTasks == Init /\ [][NextTasks]_vars

\* ------------------------------------------------------------- pulse train
\* taskPulse alone on a sampled square wave: one sample every TrainGap ms
TrainGap == 400
MaxTrainCycles == 12

NextTrain ==
  \E raw \in RawLevels : cycles < MaxTrainCycles /\ PulseCycle(raw, TrainGap)

SpecTrain == Init /\ [][NextTrain]_vars

\* ------------------------------------------------------------ resting signal
\* taskPulse alone on a weak signal, at the baseline or 64 units above it,
\* under which the threshold decays to its floor
RestLevels == {QuickBaseline, QuickBaseline + 64}
RestGap == 100
MaxRestCycles == 24

NextRest ==
  \E raw \in RestLevels : cycles < MaxRestCycles /\ PulseCycle(raw, RestGap)

SpecRest == Init /\ [][NextRest]_vars

\* ------------------------------------------------------------- held signal
\* taskPulse alone on a signal that steps to one level after the quick
\* baseline and stays there
HoldLevels == {QuickBaseline - 500, QuickBaseline + 100, QuickBaseline + 500}
HoldGap == 100
MaxHoldCycles == 300

NextHold ==
  \E raw \in HoldLevels :
    /\ cycles < MaxHoldCycles
    /\ cycles = 0 \/ raw = rawIn
    /\ PulseCycle(raw, HoldGap)

\* the loop of taskPulse never ends and comes back after every vTaskDelay(1)
SpecHold == Init /\ [][NextHold]_vars /\ WF_vars(NextHold)

\* -------------------------------------------------------------- slow pulse
\* taskPulse alone on a pulse that slows down or pauses: samples 400, 1000 or
\* 3200 ms apart
SlowGaps == {400, 1000, 3200}
MaxSlowCycles == 7

NextSlow ==
  \E raw \in RawLevels, gap \in SlowGaps :
    cycles < MaxSlowCycles /\ PulseCycle(raw, gap)

\* the loop of taskPulse never ends and comes back after every vTaskDelay(1)
SpecSlow == Init /\ [][NextSlow]_vars /\ WF_vars(NextSlow)

\* ======================================================== reading store claims
\* what the claims speak of, stated from their own words
Finite(x) == x \notin {NaN, Null}
Within(x, lo, hi) == Finite(x) /\ lo * Scale <= x /\ x <= hi * Scale
Outside(x, lo, hi) == Finite(x) /\ (x < lo * Scale \/ x > hi * Scale)
Dist(a, b) == IF a >= b THEN a - b ELSE b - a

CandNonFinite ==
  \/ ~Finite(cand.heartRate)
  \/ ~Finite(cand.bodyTempC)
  \/ ~Finite(cand.ambientTempC)
  \/ ~Finite(cand.timestamp)

CandOutOfBounds ==
  \/ Outside(cand.heartRate, 30, 220)
  \/ Outside(cand.bodyTempC, 20, 42)
  \/ Outside(cand.ambientTempC, -30, 60)
  \/ Outside(cand.humidity, 0, 100)

CandInvalid == CandNonFinite \/ CandOutOfBounds

\* finite required fields, every field inside the hard bounds
CandValid ==
  /\ Finite(cand.timestamp)
  /\ Within(cand.heartRate, 30, 220)
  /\ Within(cand.bodyTempC, 20, 42)
  /\ Within(cand.ambientTempC, -30, 60)
  /\ (cand.humidity = Null \/ Within(cand.humidity, 0, 100))

Accepted == lastOp = "add" /\ ret = "true"
HadPrev == Len(bufBefore) > 0
Prev == bufBefore[Len(bufBefore)]
\* the last buffered reading is at most 5000 ms older than the candidate
PrevFresh == HadPrev /\ cand.timestamp - Prev.timestamp <= 5000
Cutoff == now - 3600000

\* after is before without its longest front run of readings older than Cutoff
FrontPruned(before, after) ==
  \E k \in 0..Len(before) :
    /\ after = SubSeq(before, k + 1, Len(before))
    /\ \A i \in 1..k : before[i].timestamp < Cutoff
    /\ k < Len(before) => before[k + 1].timestamp >= Cutoff

\* C1 (as stated): an addReading call with a non-finite required field or a
\* field outside the hard bounds rejects the candidate and leaves the buffer
\* exactly as it was, whatever the current time and buffer contents.
C1_RejectLeavesBufferUntouched ==
  (lastOp = "add" /\ CandInvalid) => (ret # "true" /\ buf = bufBefore)

\* C1 (amended): such a call rejects the candidate and appends nothing; the
\* buffer it leaves is the buffer before the call without the front readings
\* older than now - 3,600,000 ms (the same buffer when none has expired).
C1_RejectOnlyPrunes ==
  (lastOp = "add" /\ CandInvalid) =>
    /\ ret = "undefined"
    /\ pushed = NoReading
    /\ FrontPruned(bufBefore, buf)

\* a rejection that pruned one expired reading and kept a younger one
C1_Witness ==
  /\ lastOp = "add"
  /\ CandInvalid
  /\ Len(buf) > 0
  /\ Len(buf) < Len(bufBefore)

C3_BufferWithinHardBounds ==
  \A i \in 1..Len(buf) :
    /\ Within(buf[i].heartRate, 30, 220)
    /\ Within(buf[i].bodyTempC, 20, 42)
    /\ Within(buf[i].ambientTempC, -30, 60)
    /\ (buf[i].humidity = Null \/ Within(buf[i].humidity, 0, 100))

\* a buffered reading whose heart rate and humidity were changed by clamping
C3_Witness ==
  /\ Accepted
  /\ Len(buf) > 0
  /\ buf[Len(buf)] = pushed
  /\ pushed.heartRate # cand.heartRate
  /\ pushed.humidity # cand.humidity

\* C4 (as stated): whenever the candidate's heartRate differs from the
\* previous accepted heartRate by more than 50, the stored heartRate is at
\* distance exactly 50 from the previous one, towards the candidate.
C4_JumpAlwaysClamped ==
  (Accepted /\ HadPrev /\ Dist(cand.heartRate, Prev.heartRate) > 50 * Scale) =>
    /\ Dist(pushed.heartRate, Prev.heartRate) = 50 * Scale
    /\ (pushed.heartRate > Prev.heartRate) = (cand.heartRate > Prev.heartRate)

\* C4 (amended): that holds when the previous accepted reading is the last
\* one in the buffer and the candidate's timestamp is at most 5000 ms later
\* than its timestamp.
C4_JumpClampedWhenFresh ==
  (Accepted /\ PrevFresh /\ Dist(cand.heartRate, Prev.heartRate) > 50 * Scale) =>
    /\ Dist(pushed.heartRate, Prev.heartRate) = 50 * Scale
    /\ (pushed.heartRate > Prev.heartRate) = (cand.heartRate > Prev.heartRate)

\* a clamped drop of the heart rate, one Step after the previous reading
C4_Witness ==
  /\ Accepted
  /\ PrevFresh
  /\ cand.timestamp > Prev.timestamp
  /\ cand.heartRate < Prev.heartRate - 50 * Scale
  /\ pushed.heartRate = Prev.heartRate - 50 * Scale

\* C5: when the previous accepted reading is not stale, the stored bodyTempC,
\* ambientTempC and humidity differ from the previous values by at most the
\* per-sample jump limits 1, 2.0 and 15.
C5_JumpLimitsHold ==
  (Accepted /\ PrevFresh) =>
    /\ Dist(pushed.bodyTempC, Prev.bodyTempC) <= 1 * Scale
    /\ Dist(pushed.ambientTempC, Prev.ambientTempC) <= 2 * Scale
    /\ (Finite(pushed.humidity) /\ Finite(Prev.humidity)) =>
         Dist(pushed.humidity, Prev.humidity) <= 15 * Scale

\* elapsed seconds = max(0.001, (timestamp - previous timestamp) / 1000), in ms
ElapsedMs ==
  IF cand.timestamp - Prev.timestamp >= 1 THEN cand.timestamp - Prev.timestamp ELSE 1

\* C6: when the previous accepted reading is not stale, every stored field
\* differs from the previous value by at most limit_per_sec * elapsed
\* seconds, with limits 40, 0.6, 3.0 and 20 (both sides times 1000 here).
C6_RocLimitsHold ==
  (Accepted /\ PrevFresh) =>
    /\ 1000 * Dist(pushed.heartRate, Prev.heartRate) <= 40 * Scale * ElapsedMs
    /\ 10000 * Dist(pushed.bodyTempC, Prev.bodyTempC) <= 6 * Scale * ElapsedMs
    /\ 1000 * Dist(pushed.ambientTempC, Prev.ambientTempC) <= 3 * Scale * ElapsedMs
    /\ (Finite(pushed.humidity) /\ Finite(Prev.humidity)) =>
         1000 * Dist(pushed.humidity, Prev.humidity) <= 20 * Scale * ElapsedMs

\* C7: a candidate more than 5000 ms later than the most recently accepted
\* reading skips the jump and rate checks and is stored with exactly its own
\* field values, for gaps of any size.  (A non-empty buffer ends with the
\* most recently accepted reading; with an empty buffer nothing is compared.)
C7_StaleBypass ==
  (lastOp = "add" /\ CandValid /\ HadPrev /\ cand.timestamp - Prev.timestamp > 5000) =>
    /\ ret = "true"
    /\ pushed = cand
    /\ cand.timestamp >= Cutoff => (Len(buf) > 0 /\ buf[Len(buf)] = cand)

\* a reading far from the previous one in every field, stored as it came
C7_Witness ==
  /\ Accepted
  /\ HadPrev
  /\ cand.timestamp - Prev.timestamp > 5000
  /\ Dist(cand.heartRate, Prev.heartRate) > 50 * Scale
  /\ Dist(cand.humidity, Prev.humidity) > 15 * Scale
  /\ Finite(cand.humidity) /\ Finite(Prev.humidity)
  /\ Len(buf) > 0
  /\ buf[Len(buf)] = cand

\* C8: after every accepting addReading call, every element of the buffer
\* has timestamp >= now - 3,600,000 ms, also for candidate timestamps that
\* are not in non-decreasing order.
C8_AllWithinWindowAfterAccept ==
  Accepted => \A i \in 1..Len(buf) : buf[i].timestamp >= Cutoff

\* C9: getLastHourReadings never returns an element older than now minus
\* the retention window at the time of the call, for any from / to and any
\* time elapsed since the last addReading.
C9_QueryNeverReturnsExpired ==
  lastOp = "query" => \A i \in 1..Len(result) : result[i].timestamp >= Cutoff

\* the positions of the buffer that lie in [qFrom, qTo]
InRange == { i \in 1..Len(buf) : qFrom <= buf[i].timestamp /\ buf[i].timestamp <= qTo }

\* C10: getLastHourReadings(from, to) returns exactly the buffered readings
\* with from <= timestamp <= to, in buffer order, and leaves the buffer
\* unchanged.
C10_WindowExact ==
  lastOp = "query" =>
    /\ buf = bufBefore
    /\ Len(result) = Cardinality(InRange)
    /\ \A i \in InRange : result[Cardinality({k \in InRange : k <= i})] = buf[i]

\* a query that keeps readings on both ends of the range and leaves one out
C10_Witness ==
  /\ lastOp = "query"
  /\ Len(result) >= 1
  /\ Len(result) < Len(buf)
  /\ \E i \in 1..Len(result) : result[i].timestamp = qTo
  /\ \E i \in 1..Len(result) : result[i].timestamp = qFrom

\* ============================================ reset, size and aggregate claims
\* C11: after resetBuffer, from any buffer state, the buffer is empty, the
\* size is 0 and a window query returns an empty result for every from / to;
\* a second resetBuffer changes nothing.
C11_ResetEmpties ==
  [][ /\ lastOp' = "reset" => buf' = <<>>
      /\ (lastOp = "reset" /\ lastOp' = "size") => size' = 0
      /\ (lastOp = "reset" /\ lastOp' = "query") => result' = <<>>
      /\ (lastOp = "reset" /\ lastOp' = "reset") => buf' = buf ]_vars

\* a reset of a full buffer
C11_Witness ==
  /\ lastOp = "reset"
  /\ Len(bufBefore) = MaxBuf
  /\ getBufferSize(buf) = 0

\* the positions of the buffer inside the trailing one-hour window
WindowRows ==
  { i \in 1..Len(buf) : now - 3600000 <= buf[i].timestamp /\ buf[i].timestamp <= now }

\* those of them that carry a finite value of the metric f
FiniteRows(f) == { i \in WindowRows : f \in DOMAIN buf[i] /\ Finite(buf[i][f]) }

RECURSIVE SumOfRows(_, _)
SumOfRows(S, f) ==
  IF S = {} THEN 0
  ELSE LET i == CHOOSE k \in S : TRUE IN buf[i][f] + SumOfRows(S \ {i}, f)

\* the aggregate of each metric and the reading field it is taken from
Metrics ==
  { <<"hrMean", "heartRate">>, <<"bodyMean", "bodyTempC">>,
    <<"ambMean", "ambientTempC">>, <<"humidityMean", "humidity">>,
    <<"mlxObjMean", "mlxObjectC">>, <<"mlxAmbMean", "mlxAmbientC">> }

\* C13: computeAggregates returns, for each metric, the arithmetic mean of the
\* finite values of that metric among the readings of the trailing one-hour
\* window, ignoring missing and non-finite values, and null when there is
\* none; the sample count is the number of readings of the window and the
\* coverage is that count over 3600.
C13_MeansOverWindow ==
  lastOp = "aggr" =>
    /\ \A m \in Metrics :
         LET S == FiniteRows(m[2])
             mean == aggr[m[1]]
         IN  IF S = {} THEN mean = NullMean
             ELSE /\ mean.n > 0
                  /\ mean.sum * Cardinality(S) = SumOfRows(S, m[2]) * mean.n
    /\ aggr.recentCount = Cardinality(WindowRows)
    /\ Cardinality(WindowRows) <= 3600 =>
         aggr.coveragePct.num * 3600 = Cardinality(WindowRows) * aggr.coveragePct.den

\* two readings of different heart rate in the window, one without humidity
C13_Witness ==
  /\ lastOp = "aggr"
  /\ aggr.recentCount = 2
  /\ aggr.hrMean.n = 2
  /\ aggr.hrMean.sum > 2 * buf[1].heartRate
  /\ aggr.humidityMean.n = 1
  /\ aggr.mlxObjMean = NullMean

\* ================================================================ stream claim
\* the readings of the stream arrive more than WINDOW_MS / nAcc apart
SpacedBeyondShare == nAcc >= 2 => minGap * nAcc > WINDOW_MS

\* C12 as stated: starting from an empty buffer, after N accepted in-bounds,
\* non-outlier readings spaced beyond the retention window over N apart, the
\* buffer size equals N.
C12_SizeIsCount ==
  (lastOp = "add" /\ nAcc >= 1 /\ SpacedBeyondShare) => getBufferSize(buf) = nAcc

\* C12 amended: ... of which the first arrived no more than one retention
\* window before the last, the buffer size equals N.
C12_SizeIsCountWithinWindow ==
  (lastOp = "add" /\ nAcc >= 1 /\ SpacedBeyondShare /\ lastAt - firstAt <= WINDOW_MS)
    => getBufferSize(buf) = nAcc

\* four readings, the first exactly one retention window before the last
C12_Witness ==
  /\ lastOp = "add"
  /\ nAcc = 4
  /\ SpacedBeyondShare
  /\ lastAt - firstAt = WINDOW_MS
  /\ getBufferSize(buf) = 4

\* ========================================================= result screen claims
\* C14: when the AI summary call fails (missing key, timeout, rejected
\* request, unparsable response), the result screen ends with a status among
\* bad, fine and good and with the locally composed report; it is not left in
\* the loading state.
C14_FailureEndsClassified ==
  resOp = "rejected" =>
    /\ status \in {"bad", "fine", "good"}
    /\ report = "falling back"
    /\ ~loading

\* the mean m compares as stated with the bound (in whole units over den);
\* a null mean makes every comparison false
MeanAbove(m, num, den) == m.n > 0 /\ m.sum * den > num * Scale * m.n
MeanAtLeast(m, num, den) == m.n > 0 /\ m.sum * den >= num * Scale * m.n
MeanAtMost(m, num, den) == m.n > 0 /\ m.sum * den <= num * Scale * m.n

\* the local rule-based classification of the aggregates a
LocalClass(a) ==
  IF MeanAbove(a.hrMean, 100, 1) \/ MeanAbove(a.bodyMean, 378, 10) THEN "bad"
  ELSE IF /\ MeanAtLeast(a.hrMean, 55, 1) /\ MeanAtMost(a.hrMean, 85, 1)
          /\ MeanAtLeast(a.bodyMean, 36, 1) /\ MeanAtMost(a.bodyMean, 372, 10)
       THEN "good"
  ELSE "fine"

\* C15: the local classification, which gives the status after a failed AI
\* call, is bad if the mean heart rate is above 100 or the mean body
\* temperature above 37.8, else good if the heart rate is within [55, 85] and
\* the body temperature within [36.0, 37.2], else fine.
C15_LocalClassification ==
  resOp = "rejected" => status = LocalClass(curAggr)

\* ============================================================ telemetry claims
\* the message handled last had every field present
FrameComplete ==
  \A f \in {"heartRate", "bodyTempC", "ambientTempC", "humidity", "ts"} : Finite(frame[f])

\* the readings a query of the trailing hour returns now
StoredNow == getLastHourReadings(buf, now - 3600000, now)

\* C16: a telemetry message with all fields present, decoded by the client
\* handler and passed to addReading on an empty buffer, is found by a query
\* as one stored reading whose heartRate and humidity equal the message's
\* within one decimal and whose bodyTempC and ambientTempC within two.
C16_RoundTrip ==
  (lastOp = "message" /\ FrameComplete /\ bufBefore = <<>>) =>
    /\ Len(StoredNow) = 1
    /\ Dist(StoredNow[1].heartRate, frame.heartRate) < Scale \div 10
    /\ Dist(StoredNow[1].humidity, frame.humidity) < Scale \div 10
    /\ Dist(StoredNow[1].bodyTempC, frame.bodyTempC) < Scale \div 100
    /\ Dist(StoredNow[1].ambientTempC, frame.ambientTempC) < Scale \div 100

Rescheduled == wsOp \in {"close", "error"} /\ ~manualDisconnect

\* C18: after an unrequested close, the delay before the k-th consecutive
\* reconnect attempt (k = 0, 1, 2, ... counted from the last successful open)
\* is min(1000 * 2^k, 15000) ms: 1000, 2000, 4000, 8000, 15000, 15000, ...;
\* in particular the first delay after an open is 1000 ms.
C18_BackoffSchedule ==
  Rescheduled => delayMs = Min(1000 * 2 ^ sinceOpen, 15000)

\* ================================================================ device claims
\* C19: at the end of every detector cycle in which more than 3000 ms have
\* passed since the last registered beat, the reported BPM is exactly 0,
\* whatever the averaging buffer holds.
C19_SilenceReportsZero ==
  (pulseOp \in {"cycle", "beat"} /\ millis - g_lastBeatMs > 3000) => g_bpm = 0

\* a cycle ends in silence while the averaging buffer holds a value
C19_Witness ==
  /\ pulseOp = "cycle"
  /\ millis - g_lastBeatMs > 3000
  /\ bpmCount >= 1
  /\ bpmBuf[1] > 0
  /\ g_bpm = 0

CycleEnded == dhtTask.pc = "delay"

\* C21: at the end of every pass of taskDHT the two non-contact outputs
\* g_mlxAmb and g_mlxObj are either both missing or both valid: if either
\* register read failed both are missing, also when the ambient register was
\* read and only the object register failed; they are both valid otherwise.
C21_MlxBothOrNeither ==
  CycleEnded =>
    IF dhtTask.okAmb /\ dhtTask.okObj
    THEN g_mlxAmb # NaN /\ g_mlxObj # NaN
    ELSE g_mlxAmb = NaN /\ g_mlxObj = NaN

\* a pass ends in which the ambient register was read and the object register
\* failed, after a pass that had delivered both
C21_Witness ==
  /\ CycleEnded
  /\ dhtTask.cycle = 2
  /\ dhtTask.okAmb /\ ~dhtTask.okObj
  /\ dhtTask.ambC # NaN
  /\ g_mlxAmb = NaN /\ g_mlxObj = NaN

\* C22: in a pass of taskDHT where the temperature or the humidity read of
\* the contact sensor is not a valid float, g_temp and g_hum both keep the
\* values they had when the pass began; they are updated, both together,
\* only when both reads of the pass are valid.
C22_ContactKeepsPrevious ==
  CycleEnded =>
    IF dhtTask.t # NaN /\ dhtTask.h # NaN
    THEN g_temp = dhtTask.t /\ g_hum = dhtTask.h
    ELSE g_temp = dhtTask.t0 /\ g_hum = dhtTask.h0

\* a pass ends in which the temperature was read and the humidity was not,
\* after a pass that had stored another temperature
C22_Witness ==
  /\ CycleEnded
  /\ dhtTask.cycle = 2
  /\ dhtTask.t # NaN /\ dhtTask.h = NaN
  /\ dhtTask.t0 # NaN /\ dhtTask.t0 # dhtTask.t
  /\ g_temp = dhtTask.t0
  /\ g_hum = dhtTask.h0 /\ g_hum # NaN

\* the broadcaster has sent a message built in a pass that began after a pass
\* of taskDHT had ended, and taskDHT has not run since
SentAfterCycle ==
  /\ wsTask.pc = "bpm"
  /\ json # NoFrame
  /\ CycleEnded
  /\ wsTask.cycle0 = dhtTask.cycle

\* C23: a telemetry message emitted after a pass of taskDHT in which the read
\* of the contact sensor failed, and before the next successful read, carries
\* null for ambientTempC and null for humidity, also when an earlier pass had
\* read them successfully.
C23_FailedReadSendsNull ==
  (SentAfterCycle /\ ~(dhtTask.t # NaN /\ dhtTask.h # NaN)) =>
    (json.ambientTempC = Null /\ json.humidity = Null)

\* ================================================================== task claims
\* the two fields of the pulse task and the four of the sampler
beatFields == <<g_bpm, g_lastBeatMs>>
envFields == <<g_temp, g_hum, g_mlxAmb, g_mlxObj>>

\* C24: every field of the shared snapshot has exactly one writer: only a
\* step of taskPulse changes g_bpm or g_lastBeatMs, only a step of taskDHT
\* changes g_temp, g_hum, g_mlxAmb or g_mlxObj, and every step of
\* taskWsBroadcaster and of taskPrint leaves all six fields unchanged.
C24_OneWriterPerField ==
  [][ /\ beatFields' # beatFields => cycles' # cycles
      /\ envFields' # envFields => dhtTask' # dhtTask
      /\ (wsTask' # wsTask \/ printTask' # printTask) =>
           (beatFields' = beatFields /\ envFields' = envFields) ]_vars

\* the pulse task and the sampler have both written, the broadcaster has sent
\* and the print task has printed
C24_Witness ==
  /\ g_lastBeatMs > 0
  /\ g_temp # NaN /\ g_hum # NaN /\ g_mlxAmb # NaN /\ g_mlxObj # NaN
  /\ json # NoFrame /\ json.bodyTempC # Null
  /\ printTask.last > 0 /\ printTask.pc = "idle"

\* C25: the sampler updates the snapshot atomically per source: under any
\* interleaving of taskDHT with taskWsBroadcaster or taskPrint, a reader never
\* obtains a pair from one source (ambient temperature with humidity, or
\* non-contact ambient with object temperature) in which one value was
\* written in a different pass of taskDHT than the other.
C25_PairsFromOnePass == ~readFrom.torn

\* ============================================================== detector claims
\* the step registers a beat: the pass of taskPulse stores a new lastBeatMs
BeatRegistered == lastBeatMs' # lastBeatMs

\* AC of the pass the step takes: the new low-pass value less the baseline the
\* pass started with
StepAc == lp' - baseline

StepIbi == millis' - lastBeatMs

\* C27: on a registered beat, an instantaneous BPM = 60000 / interval is
\* pushed into the averaging buffer exactly when a previous beat timestamp
\* exists and the interval lies within [300, 1500] ms, both ends included (an
\* interval of exactly 1500 ms contributes 40 BPM); otherwise the buffer and
\* the reported BPM are left unchanged while the last-beat timestamp is still
\* updated.
C27_PushWithinInclusiveBounds ==
  [][ BeatRegistered =>
        IF lastBeatMs > 0 /\ StepIbi >= 300 /\ StepIbi <= 1500
        THEN /\ instants' = Append(instants, (60000 * Scale) \div StepIbi)
             /\ bpmBuf' = [bpmBuf EXCEPT ![bpmIdx + 1] = (60000 * Scale) \div StepIbi]
        ELSE /\ bpmBuf' = bpmBuf
             /\ g_bpm' = g_bpm
             /\ lastBeatMs' = millis'
             /\ g_lastBeatMs' = millis' ]_vars

\* the number of values the mean is taken over after k pushes
Held(k) == IF k < 4 THEN k ELSE 4

RECURSIVE SumLast(_, _)
\* the sum of the last n elements of the sequence s
SumLast(s, n) ==
  IF n = 0 THEN 0 ELSE s[Len(s)] + SumLast(SubSeq(s, 1, Len(s) - 1), n - 1)

\* C28: immediately after the k-th valid inter-beat interval since start
\* (k >= 1), the reported BPM equals the arithmetic mean of the last min(k, 4)
\* instantaneous BPM values, the oldest slot being overwritten once four are
\* held; with every interval equal to 800 ms the reported BPM is 75.
C28_MeanOfLastFour ==
  [][ instants' # instants =>
        LET k == Len(instants')
        IN  /\ g_bpm' = SumLast(instants', Held(k)) \div Held(k)
            /\ \A i \in (k - Held(k) + 1)..k :
                 bpmBuf'[((i - 1) % 4) + 1] = instants'[i]
            /\ (\A i \in 1..k : instants'[i] = (60000 * Scale) \div 800) =>
                 g_bpm' = 75 * Scale ]_vars

\* the fifth valid interval has just been measured: the first was 1200 ms and
\* has been overwritten, the four that followed were 800 ms each
C28_Witness ==
  /\ pulseOp = "beat"
  /\ Len(instants) = 5
  /\ instants[1] = 50 * Scale
  /\ \A i \in 2..5 : instants[i] = 75 * Scale
  /\ bpmBuf = <<75 * Scale, 75 * Scale, 75 * Scale, 75 * Scale>>
  /\ g_bpm = 75 * Scale

\* C29: the inside-peak flag is set only when a beat is registered and is
\* cleared only in a cycle where AC < 0; therefore between any two consecutive
\* registered beats there is at least one cycle in which AC was below zero.
C29_PeakFlagDiscipline ==
  [][ /\ (~inPeak /\ inPeak') => BeatRegistered
      /\ (inPeak /\ ~inPeak') => StepAc < 0
      /\ (BeatRegistered /\ lastBeatMs > 0) => dipped ]_vars

\* after a second beat, registered once AC had been below zero, the flag has
\* been cleared again by a cycle with AC below zero
C29_Witness ==
  /\ pulseOp = "cycle"
  /\ Len(instants) >= 1
  /\ lastBeatMs > 0
  /\ ~inPeak
  /\ dipped

\* |AC| of the pass the step takes
StepAbsAc == IF StepAc < 0 THEN 0 - StepAc ELSE StepAc

\* the threshold before the floor is applied
StepRawThresh ==
  IF StepAbsAc > thresh THEN (3 * thresh + StepAbsAc) \div 4
  ELSE (15 * thresh) \div 16

\* C30: at the end of every detector cycle the adaptive threshold is at least
\* 30: it becomes (3*thresh + |AC|)/4 when |AC| exceeds it and 15*thresh/16
\* otherwise (integer division), then is raised to 30 if below, for every
\* sequence of raw samples.
C30_ThresholdFloor ==
  [][ cycles' # cycles =>
        /\ thresh' >= 30
        /\ thresh' = IF StepRawThresh < 30 THEN 30 ELSE StepRawThresh ]_vars

\* the threshold has decayed from 120 to the floor and a cycle has just held
\* it there
C30_Witness ==
  /\ pulseOp = "cycle"
  /\ thresh = 30
  /\ cycles >= 20
  /\ lp = QuickBaseline

\* C31: with the integer arithmetic of the detector (division truncating
\* toward zero), a raw input held constant at R makes the baseline and the
\* fast estimate both converge to R, so that the AC component (fast estimate
\* minus baseline) eventually becomes and stays 0.  Both filters being
\* functions of their own value and the input, they converge to R only if no
\* other value is left unchanged by a pass: a pass over the held input that
\* changes neither filter finds both at R.
C31_HeldInputConverges ==
  [][ (cycles > 0 /\ rawIn' = rawIn /\ lp' = lp /\ baseline' = baseline) =>
        (lp = rawIn /\ baseline = rawIn /\ lp - baseline = 0) ]_vars

C33_FreshMeanAfterSilence ==
  [][ (instants' # instants /\ g_bpm' # 0) =>
        g_bpm' = SumLast(instants', Held(fresh')) \div Held(fresh') ]_vars

\* ===================================================== no-beat message claims
\* the message names no beat, or lacks one of the three required values
FrameWithoutBeat ==
  \/ frame.heartRate = 0
  \/ frame.heartRate = Null
  \/ frame.bodyTempC = Null
  \/ frame.ambientTempC = Null

\* C34: a telemetry message whose heartRate is 0, or whose heartRate,
\* bodyTempC or ambientTempC is null, adds no reading to the buffer: the call
\* does not return true, nothing is pushed, and the buffer afterwards holds
\* only readings it held before, so it gains no element.
C34_NoBeatNeverStored ==
  (lastOp = "message" /\ FrameWithoutBeat) =>
    /\ ret # "true"
    /\ pushed = NoReading
    /\ Len(buf) <= Len(bufBefore)
    /\ \A i \in 1..Len(buf) : \E j \in 1..Len(bufBefore) : bufBefore[j] = buf[i]

\* a message without a beat and with valid temperatures and humidity has
\* been handled while the buffer held a reading, and the buffer is as before
C34_Witness ==
  /\ lastOp = "message"
  /\ frame.heartRate = 0
  /\ Finite(frame.bodyTempC) /\ Finite(frame.ambientTempC) /\ Finite(frame.humidity)
  /\ Len(bufBefore) = 1
  /\ buf = bufBefore
  /\ ret = "undefined"

\* ====================================================== connection claims
\* sockets that are connecting or open
LiveSockets == { i \in 1..Len(socks) : socks[i] \in {"CONNECTING", "OPEN"} }

\* C35: after onDisconnect or the unmount cleanup and until the next
\* onConnect, no reconnect timeout is pending, no ping interval is active and
\* no socket is created, whatever events of the torn-down socket arrive.
C35_QuietAfterDisconnect ==
  [][ quiet' =>
        /\ liveTimeouts' = 0
        /\ ~timerLive'
        /\ liveIntervals' = 0
        /\ heartbeat' = 0
        /\ (quiet => Len(socks') = Len(socks)) ]_vars

\* the close event of the socket torn down by a disconnect, respectively by
\* the unmount, has been handled before any new connect
C35_Witness ==
  /\ quiet
  /\ mounted
  /\ wsOp = "close"
  /\ closedSock # 0
  /\ socks[closedSock] = "CLOSED"
  /\ manualDisconnect

\* C36: a close event of a socket that is not the current one leaves the
\* state of the current connection alone: the status, the ping interval, the
\* reconnect timeout and the attempt counter are as before.
C36_StaleCloseIgnored ==
  [][ (wsOp' \in {"close", "error"} /\ wsRef # 0 /\ closedSock' # wsRef) =>
        /\ connStatus' = connStatus
        /\ heartbeat' = heartbeat
        /\ timerLive' = timerLive
        /\ liveTimeouts' = liveTimeouts
        /\ reconnectAttempts' = reconnectAttempts ]_vars

\* C37: at most one socket is connecting or open, at most one ping interval
\* and at most one reconnect timeout are live.
C37_AtMostOneOfEach ==
  /\ Cardinality(LiveSockets) <= 1
  /\ liveIntervals <= 1
  /\ liveTimeouts <= 1

\* a second socket has been opened while the first is still closing, with a
\* ping interval and a reconnect timeout live at once
C37_Witness ==
  /\ Len(socks) >= 2
  /\ \E i \in 1..Len(socks) : socks[i] = "CLOSING"
  /\ Cardinality(LiveSockets) = 1
  /\ liveIntervals = 1
  /\ liveTimeouts = 1

\* ======================================================== summary run claims
\* C38: every runLLM that passes the in-flight guard clears the in-flight
\* flag and the loading flag in the end, whether the request answers, fails,
\* times out or is skipped for lack of data; and while a request is in
\* flight a further runLLM starts none: at most one request is unsettled,
\* and a blocked call leaves the flags and the request as they are.
C38_RunSettles ==
  /\ inFlight ~> (~inFlight /\ ~loading)
  /\ [](resOp = "skipped" => (~inFlight /\ ~loading))
  /\ [](requests <= 1)
  /\ [][ resOp' = "blocked" =>
           (inFlight' /\ loading' /\ requests' = requests /\ curAggr' = curAggr) ]_vars

\* a request that timed out has cleared both flags
C38_Witness ==
  /\ resOp = "rejected"
  /\ lastError = "Request timed out"
  /\ ~inFlight
  /\ ~loading

\* ============================================================ demo claims
\* C39: when injectScenario ran while a request was in flight, the summary
\* shown once the request has answered was computed from the aggregates of
\* the injected readings.
C39_SettlesOnInjected ==
  (injectedInFlight /\ ~inFlight /\ resOp = "resolved") =>
    curAggr = computeAggregates(buf, now)

\* the reading pass i of the loop adds when the buffer was empty at the start
ExpectedInjected(i) ==
  injected(startVals(NoAggr, target(demoMode)), target(demoMode),
           now - 600000, i - 1)

\* C40: after injectScenario(mode) the buffer holds exactly the 600 injected
\* readings, one every 1000 ms over the last ten minutes, none altered and
\* none left from before, and the aggregates shown report 600 samples and a
\* coverage of 600 / 3600.
C40_DemoBufferExact ==
  lastOp = "inject" =>
    /\ Len(buf) = 600
    /\ \A i \in 1..Len(buf) :
         /\ buf[i].timestamp = now - 600000 + (i - 1) * 1000
         /\ buf[i] = ExpectedInjected(i)
    /\ shownAggr.recentCount = 600
    /\ shownAggr.coveragePct = [num |-> 600, den |-> 3600]

\* the scenario was injected over a buffer that held readings
C40_Witness ==
  /\ lastOp = "inject"
  /\ demoMode = "bad-heat"
  /\ Len(bufBefore) = 4
  /\ Len(buf) = 600
  /\ shownAggr.recentCount = 600

====
